---- MODULE Spec2Model ----
(***************************************************************************)
(* autograph-pls (parsesign.go): backward search for an ASN.1 signature    *)
(* block (marker 0x30 0x82), the hand-written TLV decoder                  *)
(* parseASN1Element, the recursive walkers built on it and the certificate *)
(* field validation.                                                       *)
(*                                                                         *)
(* A Go byte slice is modelled as the sequence of its bytes (0..255); Go   *)
(* index k is sequence index k+1.  Go's int is 64 bits wide (the program   *)
(* is built for 64-bit Linux: it calls syscall.Mmap); a 64-bit value that  *)
(* can leave TLC's integer range is carried as its eight two's-complement  *)
(* bytes, most significant first.                                          *)
(***************************************************************************)
EXTENDS Integers, Sequences, FiniteSets, TLC

(***************************************************************************)
(* Go slice expressions.                                                   *)
(***************************************************************************)
\* s[lo:hi]
Slice(s, lo, hi) == SubSeq(s, lo + 1, hi)

\* s[lo:]
SliceFrom(s, lo) == SubSeq(s, lo + 1, Len(s))

(***************************************************************************)
(* 64-bit two's-complement integers as eight bytes, big-endian.            *)
(***************************************************************************)
I64Zero == <<0, 0, 0, 0, 0, 0, 0, 0>>

\* (v << 8) | b on a 64-bit int: the top byte is shifted out.
I64ShlOr(v, b) == SubSeq(v, 2, 8) \o <<b>>

RECURSIVE I64Carry(_, _, _)
\* add c at byte position k and ripple the carry up; a carry out of the top
\* byte is lost, as in Go's wrapping addition.
I64Carry(v, k, c) ==
    IF k = 0 \/ c = 0 THEN v
    ELSE LET s == v[k] + c
         IN  I64Carry([v EXCEPT ![k] = s % 256], k - 1, s \div 256)

\* v + n for a small non-negative n
I64AddNat(v, n) == I64Carry(v, 8, n)

I64IsNeg(v) == v[1] >= 128

\* int(n) for a non-negative n below 2^31
I64Of(n) == I64AddNat(I64Zero, n)

\* a + b on 64-bit ints, wrapping
I64Add(a, b) ==
    LET carry[k \in 1..9] ==
            IF k = 9 THEN 0 ELSE (a[k] + b[k] + carry[k + 1]) \div 256
    IN  [k \in 1..8 |-> (a[k] + b[k] + carry[k + 1]) % 256]

\* a < b on 64-bit ints: the bytes compared from the top, the top byte
\* with its sign bit inverted
I64Less(a, b) ==
    LET ka == [a EXCEPT ![1] = (a[1] + 128) % 256]
        kb == [b EXCEPT ![1] = (b[1] + 128) % 256]
    IN  \E k \in 1..8 : /\ ka[k] < kb[k]
                        /\ \A j \in 1..(k - 1) : ka[j] = kb[j]

\* v > 0
I64Positive(v) == ~I64IsNeg(v) /\ v # I64Zero

\* v as an integer, for a v from 0 to 2^31 - 1; the values used as slice
\* indices and lengths, which the guards at each use keep in that range
I64Int(v) ==
    IF (\A k \in 1..4 : v[k] = 0) /\ v[5] < 128
    THEN v[5] * 16777216 + v[6] * 65536 + v[7] * 256 + v[8]
    ELSE CHOOSE n \in {} : TRUE

\* The run-time check of s[lo:hi], hi being a 64-bit int (hi never exceeds
\* the capacity here without exceeding the length too, see the guards at
\* each use).
SliceOK(s, lo, hi) ==
    0 <= lo /\ ~I64Less(hi, I64Of(lo)) /\ ~I64Less(I64Of(Len(s)), hi)

(***************************************************************************)
(* Text.  A Go string holding program text is the sequence of its          *)
(* characters; string(bytes) of raw content is the byte sequence itself.   *)
(***************************************************************************)
Digits == <<"0", "1", "2", "3", "4", "5", "6", "7", "8", "9">>

RECURSIVE FormatNat(_)
\* fmt.Sprintf("%d", n) for a small non-negative n
FormatNat(n) ==
    IF n < 10 THEN <<Digits[n + 1]>>
    ELSE FormatNat(n \div 10) \o <<Digits[(n % 10) + 1]>>

\* uint64 as eight bytes, big-endian
U64Zero == <<0, 0, 0, 0, 0, 0, 0, 0>>

\* (value << 7) | uint64(b & 0x7F) on a uint64
U64Shl7Or(v, b) ==
    [k \in 1..8 |->
        IF k < 8 THEN (v[k] % 2) * 128 + (v[k + 1] \div 2)
        ELSE (v[8] % 2) * 128 + (b % 128)]

RECURSIVE U64DivMod10(_, _, _, _)
\* long division of v by 10 from byte k on: <<quotient, remainder>>
U64DivMod10(v, k, q, r) ==
    IF k > 8 THEN <<q, r>>
    ELSE LET cur == r * 256 + v[k]
         IN  U64DivMod10(v, k + 1, q \o <<cur \div 10>>, cur % 10)

RECURSIVE FormatU64(_)
\* fmt.Sprintf("%d", value) for a uint64
FormatU64(v) ==
    LET qr == U64DivMod10(v, 1, <<>>, 0)
    IN  IF qr[1] = U64Zero THEN <<Digits[qr[2] + 1]>>
        ELSE FormatU64(qr[1]) \o <<Digits[qr[2] + 1]>>

RECURSIVE Join(_, _)
\* strings.Join(parts, sep)
Join(parts, sep) ==
    IF Len(parts) = 0 THEN <<>>
    ELSE IF Len(parts) = 1 THEN parts[1]
    ELSE parts[1] \o sep \o Join(Tail(parts), sep)

\* the characters of the bytes 0x20 .. 0x7E (the grave accent, which cannot
\* be written in a string here, by its name)
Printable ==
    <<" ", "!", "\"", "#", "$", "%", "&", "'", "(", ")", "*", "+", ",",
      "-", ".", "/", "0", "1", "2", "3", "4", "5", "6", "7", "8", "9",
      ":", ";", "<", "=", ">", "?", "@", "A", "B", "C", "D", "E", "F",
      "G", "H", "I", "J", "K", "L", "M", "N", "O", "P", "Q", "R", "S",
      "T", "U", "V", "W", "X", "Y", "Z", "[", "\\", "]", "^", "_", "GRAVE",
      "a", "b", "c", "d", "e", "f", "g", "h", "i", "j", "k", "l", "m",
      "n", "o", "p", "q", "r", "s", "t", "u", "v", "w", "x", "y", "z",
      "{", "|", "}", "~">>

LowerHex ==
    <<"0", "1", "2", "3", "4", "5", "6", "7", "8", "9", "a", "b", "c", "d",
      "e", "f">>

UpperHex ==
    <<"0", "1", "2", "3", "4", "5", "6", "7", "8", "9", "A", "B", "C", "D",
      "E", "F">>

\* the bytes in hexadecimal, two digits each: hex.EncodeToString with
\* LowerHex, the verb %X on a byte slice with UpperHex
HexWith(digits, bytes) ==
    [k \in 1..(2 * Len(bytes)) |->
        LET b == bytes[(k + 1) \div 2]
        IN  IF k % 2 = 1 THEN digits[(b \div 16) + 1] ELSE digits[(b % 16) + 1]]

EncodeToString(bytes) == HexWith(LowerHex, bytes)

\* utf8.DecodeRuneInString on the bytes from position k on: the rune and its
\* width, ok being FALSE for (RuneError, 1), the answer for a byte that
\* does not begin a well-formed sequence.  The second byte has the range
\* the first one asks for (no overlong form, no surrogate, no rune above
\* U+10FFFF); the others are continuation bytes.
DecodeRuneInString(bytes, k) ==
    LET b0 == bytes[k]
        size == IF b0 < 128 THEN 1
                ELSE IF b0 < 194 THEN 0
                ELSE IF b0 < 224 THEN 2
                ELSE IF b0 < 240 THEN 3
                ELSE IF b0 < 245 THEN 4
                ELSE 0
        lo == IF b0 = 224 THEN 160 ELSE IF b0 = 240 THEN 144 ELSE 128
        hi == IF b0 = 237 THEN 159 ELSE IF b0 = 244 THEN 143 ELSE 191
        cont(j) == bytes[j] >= 128 /\ bytes[j] <= 191
        invalid == [rune |-> 65533, width |-> 1, ok |-> FALSE]
    IN  IF size = 1 THEN [rune |-> b0, width |-> 1, ok |-> TRUE]
        ELSE IF size = 0 \/ k + size - 1 > Len(bytes) THEN invalid
        ELSE IF bytes[k + 1] < lo \/ bytes[k + 1] > hi THEN invalid
        ELSE IF size = 2
        THEN [rune |-> (b0 % 32) * 64 + (bytes[k + 1] % 64),
              width |-> 2, ok |-> TRUE]
        ELSE IF ~cont(k + 2) THEN invalid
        ELSE IF size = 3
        THEN [rune |-> (b0 % 16) * 4096 + (bytes[k + 1] % 64) * 64
                       + (bytes[k + 2] % 64),
              width |-> 3, ok |-> TRUE]
        ELSE IF ~cont(k + 3) THEN invalid
        ELSE [rune |-> (b0 % 8) * 262144 + (bytes[k + 1] % 64) * 4096
                       + (bytes[k + 2] % 64) * 64
                       + (bytes[k + 3] % 64),
              width |-> 4, ok |-> TRUE]

\* strconv.IsPrint: letters, marks, numbers, punctuation, symbols and the
\* ASCII space.  Up to U+00FF it is the library's explicit test.  Above it
\* the library searches its tables isPrint16, isNotPrint16, isPrint32 and
\* isNotPrint32, which hold the code points of those categories; they are
\* written here as the ranges of such code points (Unicode 15.0).
IsPrint(r) ==
    IF r <= 255
    THEN (32 <= r /\ r <= 126) \/ (161 <= r /\ r # 173)
    ELSE \E range \in
                {<<256, 887>>, <<890, 895>>, <<900, 906>>, <<908, 908>>,
                 <<910, 929>>, <<931, 1327>>, <<1329, 1366>>, <<1369, 1418>>,
                 <<1421, 1423>>, <<1425, 1479>>, <<1488, 1514>>,
                 <<1519, 1524>>, <<1542, 1563>>, <<1565, 1756>>,
                 <<1758, 1805>>, <<1808, 1866>>, <<1869, 1969>>,
                 <<1984, 2042>>, <<2045, 2093>>, <<2096, 2110>>,
                 <<2112, 2139>>, <<2142, 2142>>, <<2144, 2154>>,
                 <<2160, 2190>>, <<2200, 2273>>, <<2275, 2435>>,
                 <<2437, 2444>>, <<2447, 2448>>, <<2451, 2472>>,
                 <<2474, 2480>>, <<2482, 2482>>, <<2486, 2489>>,
                 <<2492, 2500>>, <<2503, 2504>>, <<2507, 2510>>,
                 <<2519, 2519>>, <<2524, 2525>>, <<2527, 2531>>,
                 <<2534, 2558>>, <<2561, 2563>>, <<2565, 2570>>,
                 <<2575, 2576>>, <<2579, 2600>>, <<2602, 2608>>,
                 <<2610, 2611>>, <<2613, 2614>>, <<2616, 2617>>,
                 <<2620, 2620>>, <<2622, 2626>>, <<2631, 2632>>,
                 <<2635, 2637>>, <<2641, 2641>>, <<2649, 2652>>,
                 <<2654, 2654>>, <<2662, 2678>>, <<2689, 2691>>,
                 <<2693, 2701>>, <<2703, 2705>>, <<2707, 2728>>,
                 <<2730, 2736>>, <<2738, 2739>>, <<2741, 2745>>,
                 <<2748, 2757>>, <<2759, 2761>>, <<2763, 2765>>,
                 <<2768, 2768>>, <<2784, 2787>>, <<2790, 2801>>,
                 <<2809, 2815>>, <<2817, 2819>>, <<2821, 2828>>,
                 <<2831, 2832>>, <<2835, 2856>>, <<2858, 2864>>,
                 <<2866, 2867>>, <<2869, 2873>>, <<2876, 2884>>,
                 <<2887, 2888>>, <<2891, 2893>>, <<2901, 2903>>,
                 <<2908, 2909>>, <<2911, 2915>>, <<2918, 2935>>,
                 <<2946, 2947>>, <<2949, 2954>>, <<2958, 2960>>,
                 <<2962, 2965>>, <<2969, 2970>>, <<2972, 2972>>,
                 <<2974, 2975>>, <<2979, 2980>>, <<2984, 2986>>,
                 <<2990, 3001>>, <<3006, 3010>>, <<3014, 3016>>,
                 <<3018, 3021>>, <<3024, 3024>>, <<3031, 3031>>,
                 <<3046, 3066>>, <<3072, 3084>>, <<3086, 3088>>,
                 <<3090, 3112>>, <<3114, 3129>>, <<3132, 3140>>,
                 <<3142, 3144>>, <<3146, 3149>>, <<3157, 3158>>,
                 <<3160, 3162>>, <<3165, 3165>>, <<3168, 3171>>,
                 <<3174, 3183>>, <<3191, 3212>>, <<3214, 3216>>,
                 <<3218, 3240>>, <<3242, 3251>>, <<3253, 3257>>,
                 <<3260, 3268>>, <<3270, 3272>>, <<3274, 3277>>,
                 <<3285, 3286>>, <<3293, 3294>>, <<3296, 3299>>,
                 <<3302, 3311>>, <<3313, 3315>>, <<3328, 3340>>,
                 <<3342, 3344>>, <<3346, 3396>>, <<3398, 3400>>,
                 <<3402, 3407>>, <<3412, 3427>>, <<3430, 3455>>,
                 <<3457, 3459>>, <<3461, 3478>>, <<3482, 3505>>,
                 <<3507, 3515>>, <<3517, 3517>>, <<3520, 3526>>,
                 <<3530, 3530>>, <<3535, 3540>>, <<3542, 3542>>,
                 <<3544, 3551>>, <<3558, 3567>>, <<3570, 3572>>,
                 <<3585, 3642>>, <<3647, 3675>>, <<3713, 3714>>,
                 <<3716, 3716>>, <<3718, 3722>>, <<3724, 3747>>,
                 <<3749, 3749>>, <<3751, 3773>>, <<3776, 3780>>,
                 <<3782, 3782>>, <<3784, 3790>>, <<3792, 3801>>,
                 <<3804, 3807>>, <<3840, 3911>>, <<3913, 3948>>,
                 <<3953, 3991>>, <<3993, 4028>>, <<4030, 4044>>,
                 <<4046, 4058>>, <<4096, 4293>>, <<4295, 4295>>,
                 <<4301, 4301>>, <<4304, 4680>>, <<4682, 4685>>,
                 <<4688, 4694>>, <<4696, 4696>>, <<4698, 4701>>,
                 <<4704, 4744>>, <<4746, 4749>>, <<4752, 4784>>,
                 <<4786, 4789>>, <<4792, 4798>>, <<4800, 4800>>,
                 <<4802, 4805>>, <<4808, 4822>>, <<4824, 4880>>,
                 <<4882, 4885>>, <<4888, 4954>>, <<4957, 4988>>,
                 <<4992, 5017>>, <<5024, 5109>>, <<5112, 5117>>,
                 <<5120, 5759>>, <<5761, 5788>>, <<5792, 5880>>,
                 <<5888, 5909>>, <<5919, 5942>>, <<5952, 5971>>,
                 <<5984, 5996>>, <<5998, 6000>>, <<6002, 6003>>,
                 <<6016, 6109>>, <<6112, 6121>>, <<6128, 6137>>,
                 <<6144, 6157>>, <<6159, 6169>>, <<6176, 6264>>,
                 <<6272, 6314>>, <<6320, 6389>>, <<6400, 6430>>,
                 <<6432, 6443>>, <<6448, 6459>>, <<6464, 6464>>,
                 <<6468, 6509>>, <<6512, 6516>>, <<6528, 6571>>,
                 <<6576, 6601>>, <<6608, 6618>>, <<6622, 6683>>,
                 <<6686, 6750>>, <<6752, 6780>>, <<6783, 6793>>,
                 <<6800, 6809>>, <<6816, 6829>>, <<6832, 6862>>,
                 <<6912, 6988>>, <<6992, 7038>>, <<7040, 7155>>,
                 <<7164, 7223>>, <<7227, 7241>>, <<7245, 7304>>,
                 <<7312, 7354>>, <<7357, 7367>>, <<7376, 7418>>,
                 <<7424, 7957>>, <<7960, 7965>>, <<7968, 8005>>,
                 <<8008, 8013>>, <<8016, 8023>>, <<8025, 8025>>,
                 <<8027, 8027>>, <<8029, 8029>>, <<8031, 8061>>,
                 <<8064, 8116>>, <<8118, 8132>>, <<8134, 8147>>,
                 <<8150, 8155>>, <<8157, 8175>>, <<8178, 8180>>,
                 <<8182, 8190>>, <<8208, 8231>>, <<8240, 8286>>,
                 <<8304, 8305>>, <<8308, 8334>>, <<8336, 8348>>,
                 <<8352, 8384>>, <<8400, 8432>>, <<8448, 8587>>,
                 <<8592, 9254>>, <<9280, 9290>>, <<9312, 11123>>,
                 <<11126, 11157>>, <<11159, 11507>>, <<11513, 11557>>,
                 <<11559, 11559>>, <<11565, 11565>>, <<11568, 11623>>,
                 <<11631, 11632>>, <<11647, 11670>>, <<11680, 11686>>,
                 <<11688, 11694>>, <<11696, 11702>>, <<11704, 11710>>,
                 <<11712, 11718>>, <<11720, 11726>>, <<11728, 11734>>,
                 <<11736, 11742>>, <<11744, 11869>>, <<11904, 11929>>,
                 <<11931, 12019>>, <<12032, 12245>>, <<12272, 12283>>,
                 <<12289, 12351>>, <<12353, 12438>>, <<12441, 12543>>,
                 <<12549, 12591>>, <<12593, 12686>>, <<12688, 12771>>,
                 <<12784, 12830>>, <<12832, 42124>>, <<42128, 42182>>,
                 <<42192, 42539>>, <<42560, 42743>>, <<42752, 42954>>,
                 <<42960, 42961>>, <<42963, 42963>>, <<42965, 42969>>,
                 <<42994, 43052>>, <<43056, 43065>>, <<43072, 43127>>,
                 <<43136, 43205>>, <<43214, 43225>>, <<43232, 43347>>,
                 <<43359, 43388>>, <<43392, 43469>>, <<43471, 43481>>,
                 <<43486, 43518>>, <<43520, 43574>>, <<43584, 43597>>,
                 <<43600, 43609>>, <<43612, 43714>>, <<43739, 43766>>,
                 <<43777, 43782>>, <<43785, 43790>>, <<43793, 43798>>,
                 <<43808, 43814>>, <<43816, 43822>>, <<43824, 43883>>,
                 <<43888, 44013>>, <<44016, 44025>>, <<44032, 55203>>,
                 <<55216, 55238>>, <<55243, 55291>>, <<63744, 64109>>,
                 <<64112, 64217>>, <<64256, 64262>>, <<64275, 64279>>,
                 <<64285, 64310>>, <<64312, 64316>>, <<64318, 64318>>,
                 <<64320, 64321>>, <<64323, 64324>>, <<64326, 64450>>,
                 <<64467, 64911>>, <<64914, 64967>>, <<64975, 64975>>,
                 <<65008, 65049>>, <<65056, 65106>>, <<65108, 65126>>,
                 <<65128, 65131>>, <<65136, 65140>>, <<65142, 65276>>,
                 <<65281, 65470>>, <<65474, 65479>>, <<65482, 65487>>,
                 <<65490, 65495>>, <<65498, 65500>>, <<65504, 65510>>,
                 <<65512, 65518>>, <<65532, 65533>>, <<65536, 65547>>,
                 <<65549, 65574>>, <<65576, 65594>>, <<65596, 65597>>,
                 <<65599, 65613>>, <<65616, 65629>>, <<65664, 65786>>,
                 <<65792, 65794>>, <<65799, 65843>>, <<65847, 65934>>,
                 <<65936, 65948>>, <<65952, 65952>>, <<66000, 66045>>,
                 <<66176, 66204>>, <<66208, 66256>>, <<66272, 66299>>,
                 <<66304, 66339>>, <<66349, 66378>>, <<66384, 66426>>,
                 <<66432, 66461>>, <<66463, 66499>>, <<66504, 66517>>,
                 <<66560, 66717>>, <<66720, 66729>>, <<66736, 66771>>,
                 <<66776, 66811>>, <<66816, 66855>>, <<66864, 66915>>,
                 <<66927, 66938>>, <<66940, 66954>>, <<66956, 66962>>,
                 <<66964, 66965>>, <<66967, 66977>>, <<66979, 66993>>,
                 <<66995, 67001>>, <<67003, 67004>>, <<67072, 67382>>,
                 <<67392, 67413>>, <<67424, 67431>>, <<67456, 67461>>,
                 <<67463, 67504>>, <<67506, 67514>>, <<67584, 67589>>,
                 <<67592, 67592>>, <<67594, 67637>>, <<67639, 67640>>,
                 <<67644, 67644>>, <<67647, 67669>>, <<67671, 67742>>,
                 <<67751, 67759>>, <<67808, 67826>>, <<67828, 67829>>,
                 <<67835, 67867>>, <<67871, 67897>>, <<67903, 67903>>,
                 <<67968, 68023>>, <<68028, 68047>>, <<68050, 68099>>,
                 <<68101, 68102>>, <<68108, 68115>>, <<68117, 68119>>,
                 <<68121, 68149>>, <<68152, 68154>>, <<68159, 68168>>,
                 <<68176, 68184>>, <<68192, 68255>>, <<68288, 68326>>,
                 <<68331, 68342>>, <<68352, 68405>>, <<68409, 68437>>,
                 <<68440, 68466>>, <<68472, 68497>>, <<68505, 68508>>,
                 <<68521, 68527>>, <<68608, 68680>>, <<68736, 68786>>,
                 <<68800, 68850>>, <<68858, 68903>>, <<68912, 68921>>,
                 <<69216, 69246>>, <<69248, 69289>>, <<69291, 69293>>,
                 <<69296, 69297>>, <<69373, 69415>>, <<69424, 69465>>,
                 <<69488, 69513>>, <<69552, 69579>>, <<69600, 69622>>,
                 <<69632, 69709>>, <<69714, 69749>>, <<69759, 69820>>,
                 <<69822, 69826>>, <<69840, 69864>>, <<69872, 69881>>,
                 <<69888, 69940>>, <<69942, 69959>>, <<69968, 70006>>,
                 <<70016, 70111>>, <<70113, 70132>>, <<70144, 70161>>,
                 <<70163, 70209>>, <<70272, 70278>>, <<70280, 70280>>,
                 <<70282, 70285>>, <<70287, 70301>>, <<70303, 70313>>,
                 <<70320, 70378>>, <<70384, 70393>>, <<70400, 70403>>,
                 <<70405, 70412>>, <<70415, 70416>>, <<70419, 70440>>,
                 <<70442, 70448>>, <<70450, 70451>>, <<70453, 70457>>,
                 <<70459, 70468>>, <<70471, 70472>>, <<70475, 70477>>,
                 <<70480, 70480>>, <<70487, 70487>>, <<70493, 70499>>,
                 <<70502, 70508>>, <<70512, 70516>>, <<70656, 70747>>,
                 <<70749, 70753>>, <<70784, 70855>>, <<70864, 70873>>,
                 <<71040, 71093>>, <<71096, 71133>>, <<71168, 71236>>,
                 <<71248, 71257>>, <<71264, 71276>>, <<71296, 71353>>,
                 <<71360, 71369>>, <<71424, 71450>>, <<71453, 71467>>,
                 <<71472, 71494>>, <<71680, 71739>>, <<71840, 71922>>,
                 <<71935, 71942>>, <<71945, 71945>>, <<71948, 71955>>,
                 <<71957, 71958>>, <<71960, 71989>>, <<71991, 71992>>,
                 <<71995, 72006>>, <<72016, 72025>>, <<72096, 72103>>,
                 <<72106, 72151>>, <<72154, 72164>>, <<72192, 72263>>,
                 <<72272, 72354>>, <<72368, 72440>>, <<72448, 72457>>,
                 <<72704, 72712>>, <<72714, 72758>>, <<72760, 72773>>,
                 <<72784, 72812>>, <<72816, 72847>>, <<72850, 72871>>,
                 <<72873, 72886>>, <<72960, 72966>>, <<72968, 72969>>,
                 <<72971, 73014>>, <<73018, 73018>>, <<73020, 73021>>,
                 <<73023, 73031>>, <<73040, 73049>>, <<73056, 73061>>,
                 <<73063, 73064>>, <<73066, 73102>>, <<73104, 73105>>,
                 <<73107, 73112>>, <<73120, 73129>>, <<73440, 73464>>,
                 <<73472, 73488>>, <<73490, 73530>>, <<73534, 73561>>,
                 <<73648, 73648>>, <<73664, 73713>>, <<73727, 74649>>,
                 <<74752, 74862>>, <<74864, 74868>>, <<74880, 75075>>,
                 <<77712, 77810>>, <<77824, 78895>>, <<78912, 78933>>,
                 <<82944, 83526>>, <<92160, 92728>>, <<92736, 92766>>,
                 <<92768, 92777>>, <<92782, 92862>>, <<92864, 92873>>,
                 <<92880, 92909>>, <<92912, 92917>>, <<92928, 92997>>,
                 <<93008, 93017>>, <<93019, 93025>>, <<93027, 93047>>,
                 <<93053, 93071>>, <<93760, 93850>>, <<93952, 94026>>,
                 <<94031, 94087>>, <<94095, 94111>>, <<94176, 94180>>,
                 <<94192, 94193>>, <<94208, 100343>>, <<100352, 101589>>,
                 <<101632, 101640>>, <<110576, 110579>>, <<110581, 110587>>,
                 <<110589, 110590>>, <<110592, 110882>>, <<110898, 110898>>,
                 <<110928, 110930>>, <<110933, 110933>>, <<110948, 110951>>,
                 <<110960, 111355>>, <<113664, 113770>>, <<113776, 113788>>,
                 <<113792, 113800>>, <<113808, 113817>>, <<113820, 113823>>,
                 <<118528, 118573>>, <<118576, 118598>>, <<118608, 118723>>,
                 <<118784, 119029>>, <<119040, 119078>>, <<119081, 119154>>,
                 <<119163, 119274>>, <<119296, 119365>>, <<119488, 119507>>,
                 <<119520, 119539>>, <<119552, 119638>>, <<119648, 119672>>,
                 <<119808, 119892>>, <<119894, 119964>>, <<119966, 119967>>,
                 <<119970, 119970>>, <<119973, 119974>>, <<119977, 119980>>,
                 <<119982, 119993>>, <<119995, 119995>>, <<119997, 120003>>,
                 <<120005, 120069>>, <<120071, 120074>>, <<120077, 120084>>,
                 <<120086, 120092>>, <<120094, 120121>>, <<120123, 120126>>,
                 <<120128, 120132>>, <<120134, 120134>>, <<120138, 120144>>,
                 <<120146, 120485>>, <<120488, 120779>>, <<120782, 121483>>,
                 <<121499, 121503>>, <<121505, 121519>>, <<122624, 122654>>,
                 <<122661, 122666>>, <<122880, 122886>>, <<122888, 122904>>,
                 <<122907, 122913>>, <<122915, 122916>>, <<122918, 122922>>,
                 <<122928, 122989>>, <<123023, 123023>>, <<123136, 123180>>,
                 <<123184, 123197>>, <<123200, 123209>>, <<123214, 123215>>,
                 <<123536, 123566>>, <<123584, 123641>>, <<123647, 123647>>,
                 <<124112, 124153>>, <<124896, 124902>>, <<124904, 124907>>,
                 <<124909, 124910>>, <<124912, 124926>>, <<124928, 125124>>,
                 <<125127, 125142>>, <<125184, 125259>>, <<125264, 125273>>,
                 <<125278, 125279>>, <<126065, 126132>>, <<126209, 126269>>,
                 <<126464, 126467>>, <<126469, 126495>>, <<126497, 126498>>,
                 <<126500, 126500>>, <<126503, 126503>>, <<126505, 126514>>,
                 <<126516, 126519>>, <<126521, 126521>>, <<126523, 126523>>,
                 <<126530, 126530>>, <<126535, 126535>>, <<126537, 126537>>,
                 <<126539, 126539>>, <<126541, 126543>>, <<126545, 126546>>,
                 <<126548, 126548>>, <<126551, 126551>>, <<126553, 126553>>,
                 <<126555, 126555>>, <<126557, 126557>>, <<126559, 126559>>,
                 <<126561, 126562>>, <<126564, 126564>>, <<126567, 126570>>,
                 <<126572, 126578>>, <<126580, 126583>>, <<126585, 126588>>,
                 <<126590, 126590>>, <<126592, 126601>>, <<126603, 126619>>,
                 <<126625, 126627>>, <<126629, 126633>>, <<126635, 126651>>,
                 <<126704, 126705>>, <<126976, 127019>>, <<127024, 127123>>,
                 <<127136, 127150>>, <<127153, 127167>>, <<127169, 127183>>,
                 <<127185, 127221>>, <<127232, 127405>>, <<127462, 127490>>,
                 <<127504, 127547>>, <<127552, 127560>>, <<127568, 127569>>,
                 <<127584, 127589>>, <<127744, 128727>>, <<128732, 128748>>,
                 <<128752, 128764>>, <<128768, 128886>>, <<128891, 128985>>,
                 <<128992, 129003>>, <<129008, 129008>>, <<129024, 129035>>,
                 <<129040, 129095>>, <<129104, 129113>>, <<129120, 129159>>,
                 <<129168, 129197>>, <<129200, 129201>>, <<129280, 129619>>,
                 <<129632, 129645>>, <<129648, 129660>>, <<129664, 129672>>,
                 <<129680, 129725>>, <<129727, 129733>>, <<129742, 129755>>,
                 <<129760, 129768>>, <<129776, 129784>>, <<129792, 129938>>,
                 <<129940, 129994>>, <<130032, 130041>>, <<131072, 173791>>,
                 <<173824, 177977>>, <<177984, 178205>>, <<178208, 183969>>,
                 <<183984, 191456>>, <<194560, 195101>>, <<196608, 201546>>,
                 <<201552, 205743>>, <<917760, 917999>>} :
             range[1] <= r /\ r <= range[2]

\* strconv's appendEscapedRune inside double quotes.  A printable rune is
\* written as it is: an ASCII one as its character, another as one
\* character named by U+ and its code point in hexadecimal.
appendEscapedRune(r) ==
    LET hex(n) == [j \in 1..n |-> LowerHex[((r \div 16 ^ (n - j)) % 16) + 1]]
    IN  IF r = 34 THEN <<"\\", "\"">>
        ELSE IF r = 92 THEN <<"\\", "\\">>
        ELSE IF IsPrint(r)
        THEN IF r < 128 THEN <<Printable[r - 31]>>
             ELSE IF r < 65536
             THEN <<"U+" \o hex(4)[1] \o hex(4)[2] \o hex(4)[3] \o hex(4)[4]>>
             ELSE <<"U+" \o hex(6)[1] \o hex(6)[2] \o hex(6)[3] \o hex(6)[4]
                         \o hex(6)[5] \o hex(6)[6]>>
        ELSE IF r = 7 THEN <<"\\", "a">>
        ELSE IF r = 8 THEN <<"\\", "b">>
        ELSE IF r = 12 THEN <<"\\", "f">>
        ELSE IF r = 10 THEN <<"\\", "n">>
        ELSE IF r = 13 THEN <<"\\", "r">>
        ELSE IF r = 9 THEN <<"\\", "t">>
        ELSE IF r = 11 THEN <<"\\", "v">>
        ELSE IF r < 32 \/ r = 127 THEN <<"\\", "x">> \o hex(2)
        ELSE IF r < 65536 THEN <<"\\", "u">> \o hex(4)
        ELSE <<"\\", "U">> \o hex(8)

RECURSIVE QuoteBytes(_, _)
\* the loop of strconv's appendQuotedWith over the string, rune by rune; a
\* byte that begins no well-formed sequence is written as \x and two digits
QuoteBytes(bytes, k) ==
    IF k > Len(bytes) THEN <<>>
    ELSE LET Rune(d) ==
                 (IF ~d.ok
                  THEN <<"\\", "x">> \o EncodeToString(<<bytes[k]>>)
                  ELSE appendEscapedRune(d.rune))
                 \o QuoteBytes(bytes, k + d.width)
         IN  Rune(DecodeRuneInString(bytes, k))

\* fmt.Sprintf("%q", string(content))
Quote(content) == <<"\"">> \o QuoteBytes(content, 1) \o <<"\"">>

\* -v on a 64-bit int: every bit inverted, plus one
I64Neg(v) == I64AddNat([k \in 1..8 |-> 255 - v[k]], 1)

\* fmt.Sprintf("%d", value) for an int64
FormatI64(v) ==
    IF I64IsNeg(v) THEN <<"-">> \o FormatU64(I64Neg(v)) ELSE FormatU64(v)

(***************************************************************************)
(* ASN.1 tag constants and the certificate field OIDs.                     *)
(***************************************************************************)
TagSequence == 16
TagSet == 17
TagInteger == 2
TagOctetString == 4
TagObjectID == 6
TagBitString == 3
TagNull == 5
TagUTF8String == 12
TagPrintable == 19
TagT61String == 20
TagIA5String == 22
TagUTCTime == 23
TagGeneralTime == 24

OIDCommonName == <<"2", ".", "5", ".", "4", ".", "3">>
OIDCountryName == <<"2", ".", "5", ".", "4", ".", "6">>
OIDLocalityName == <<"2", ".", "5", ".", "4", ".", "7">>
OIDOrganizationName == <<"2", ".", "5", ".", "4", ".", "1", "0">>
OIDEmailAddress ==
    <<"1", ".", "2", ".", "8", "4", "0", ".", "1", "1", "3", "5", "4", "9",
      ".", "1", ".", "9", ".", "1">>

(***************************************************************************)
(* parseOID                                                                *)
(***************************************************************************)
RECURSIVE OIDChunk(_, _, _)
\* the inner loop of parseOID from Go index i with the value so far:
\* <<value, index after the chunk>>
OIDChunk(content, i, value) ==
    IF ~(i < Len(content)) THEN <<value, i>>
    ELSE LET b == content[i + 1]
             v == U64Shl7Or(value, b)
         IN  IF b < 128 THEN <<v, i + 1>>
             ELSE OIDChunk(content, i + 1, v)

RECURSIVE OIDArcs(_, _)
\* the outer loop of parseOID from Go index i: the formatted sub-identifiers
OIDArcs(content, i) ==
    IF ~(i < Len(content)) THEN <<>>
    ELSE LET c == OIDChunk(content, i, U64Zero)
         IN  <<FormatU64(c[1])>> \o OIDArcs(content, c[2])

\* parseOID with the first arc held at 2, the second taking the rest
parseOIDFirstArcCapped(content) ==
    IF Len(content) = 0 THEN <<>>
    ELSE LET first == content[1]
             arc == IF first \div 40 > 2 THEN 2 ELSE first \div 40
         IN  Join(<<FormatNat(arc), FormatNat(first - 40 * arc)>>
                    \o OIDArcs(content, 1), <<".">>)

parseOID(content) ==
    IF Len(content) = 0 THEN <<>>
    ELSE LET first == content[1]
         IN  Join(<<FormatNat(first \div 40), FormatNat(first % 40)>>
                    \o OIDArcs(content, 1), <<".">>)

(***************************************************************************)
(* Tag names and the text of primitive contents.                           *)
(***************************************************************************)
\* oidNames: pairs of dotted OID and name
oidNames ==
    {<<<<"1", ".", "2", ".", "8", "4", "0", ".", "1", "1", "3", "5", "4",
         "9", ".", "1", ".", "1", ".", "1">>,
       <<"r", "s", "a", "E", "n", "c", "r", "y", "p", "t", "i", "o", "n">>>>,
     <<<<"1", ".", "2", ".", "8", "4", "0", ".", "1", "1", "3", "5", "4",
         "9", ".", "1", ".", "1", ".", "5">>,
       <<"s", "h", "a", "1", "W", "i", "t", "h", "R", "S", "A", "E", "n",
         "c", "r", "y", "p", "t", "i", "o", "n">>>>,
     <<<<"1", ".", "2", ".", "8", "4", "0", ".", "1", "1", "3", "5", "4",
         "9", ".", "1", ".", "1", ".", "1", "1">>,
       <<"s", "h", "a", "2", "5", "6", "W", "i", "t", "h", "R", "S", "A",
         "E", "n", "c", "r", "y", "p", "t", "i", "o", "n">>>>,
     <<<<"1", ".", "2", ".", "8", "4", "0", ".", "1", "1", "3", "5", "4",
         "9", ".", "1", ".", "1", ".", "1", "2">>,
       <<"s", "h", "a", "3", "8", "4", "W", "i", "t", "h", "R", "S", "A",
         "E", "n", "c", "r", "y", "p", "t", "i", "o", "n">>>>,
     <<<<"1", ".", "2", ".", "8", "4", "0", ".", "1", "1", "3", "5", "4",
         "9", ".", "1", ".", "1", ".", "1", "3">>,
       <<"s", "h", "a", "5", "1", "2", "W", "i", "t", "h", "R", "S", "A",
         "E", "n", "c", "r", "y", "p", "t", "i", "o", "n">>>>,
     <<<<"1", ".", "2", ".", "8", "4", "0", ".", "1", "0", "0", "4", "5",
         ".", "2", ".", "1">>,
       <<"e", "c", "P", "u", "b", "l", "i", "c", "K", "e", "y">>>>,
     <<<<"1", ".", "2", ".", "8", "4", "0", ".", "1", "0", "0", "4", "5",
         ".", "4", ".", "3", ".", "2">>,
       <<"e", "c", "d", "s", "a", "-", "w", "i", "t", "h", "-", "S", "H",
         "A", "2", "5", "6">>>>,
     <<<<"2", ".", "1", "6", ".", "8", "4", "0", ".", "1", ".", "1", "0",
         "1", ".", "3", ".", "4", ".", "2", ".", "1">>,
       <<"s", "h", "a", "2", "5", "6">>>>,
     <<<<"2", ".", "1", "6", ".", "8", "4", "0", ".", "1", ".", "1", "0",
         "1", ".", "3", ".", "4", ".", "2", ".", "2">>,
       <<"s", "h", "a", "3", "8", "4">>>>,
     <<<<"2", ".", "1", "6", ".", "8", "4", "0", ".", "1", ".", "1", "0",
         "1", ".", "3", ".", "4", ".", "2", ".", "3">>,
       <<"s", "h", "a", "5", "1", "2">>>>,
     <<<<"1", ".", "3", ".", "1", "4", ".", "3", ".", "2", ".", "2", "6">>,
       <<"s", "h", "a", "1">>>>,
     <<<<"2", ".", "5", ".", "4", ".", "3">>,
       <<"c", "o", "m", "m", "o", "n", "N", "a", "m", "e">>>>,
     <<<<"2", ".", "5", ".", "4", ".", "6">>,
       <<"c", "o", "u", "n", "t", "r", "y", "N", "a", "m", "e">>>>,
     <<<<"2", ".", "5", ".", "4", ".", "7">>,
       <<"l", "o", "c", "a", "l", "i", "t", "y", "N", "a", "m", "e">>>>,
     <<<<"2", ".", "5", ".", "4", ".", "1", "0">>,
       <<"o", "r", "g", "a", "n", "i", "z", "a", "t", "i", "o", "n", "N",
         "a", "m", "e">>>>,
     <<<<"1", ".", "2", ".", "8", "4", "0", ".", "1", "1", "3", "5", "4",
         "9", ".", "1", ".", "9", ".", "1">>,
       <<"e", "m", "a", "i", "l", "A", "d", "d", "r", "e", "s", "s">>>>}

\* fmt.Sprintf("%s [%d]", word, tag)
Bracketed(word, tag) == word \o <<" ", "[">> \o FormatNat(tag) \o <<"]">>

getTagName(tag, isCompound) ==
    IF isCompound
    THEN IF tag = TagSequence
         THEN <<"S", "E", "Q", "U", "E", "N", "C", "E">>
         ELSE IF tag = TagSet THEN <<"S", "E", "T">>
         ELSE Bracketed(<<"C", "O", "N", "S", "T", "R", "U", "C", "T", "E",
                          "D">>, tag)
    ELSE IF tag = 1 THEN <<"B", "O", "O", "L", "E", "A", "N">>
         ELSE IF tag = TagInteger THEN <<"I", "N", "T", "E", "G", "E", "R">>
         ELSE IF tag = TagBitString
         THEN <<"B", "I", "T", " ", "S", "T", "R", "I", "N", "G">>
         ELSE IF tag = TagOctetString
         THEN <<"O", "C", "T", "E", "T", " ", "S", "T", "R", "I", "N", "G">>
         ELSE IF tag = TagNull THEN <<"N", "U", "L", "L">>
         ELSE IF tag = TagObjectID
         THEN <<"O", "B", "J", "E", "C", "T", " ", "I", "D", "E", "N", "T",
                "I", "F", "I", "E", "R">>
         ELSE IF tag = TagUTF8String
         THEN <<"U", "T", "F", "8", "S", "t", "r", "i", "n", "g">>
         ELSE IF tag = TagPrintable
         THEN <<"P", "r", "i", "n", "t", "a", "b", "l", "e", "S", "t", "r",
                "i", "n", "g">>
         ELSE IF tag = TagT61String
         THEN <<"T", "6", "1", "S", "t", "r", "i", "n", "g">>
         ELSE IF tag = TagIA5String
         THEN <<"I", "A", "5", "S", "t", "r", "i", "n", "g">>
         ELSE IF tag = TagUTCTime THEN <<"U", "T", "C", "T", "i", "m", "e">>
         ELSE IF tag = TagGeneralTime
         THEN <<"G", "e", "n", "e", "r", "a", "l", "i", "z", "e", "d", "T",
                "i", "m", "e">>
         ELSE Bracketed(<<"P", "R", "I", "M", "I", "T", "I", "V", "E">>, tag)

\* hex.EncodeToString(content), cut to 32 bytes with the byte count when
\* the content is longer
HexOrCut(content) ==
    IF Len(content) > 32
    THEN EncodeToString(SubSeq(content, 1, 32)) \o <<".", ".", ".", " ", "(">>
         \o FormatNat(Len(content))
         \o <<" ", "b", "y", "t", "e", "s", ")">>
    ELSE EncodeToString(content)

\* value after "for _, b := range content { value = (value << 8) | int64(b) }"
\* on at most eight bytes
IntegerValue(content) ==
    LET all == I64Zero \o content
    IN  SubSeq(all, Len(all) - 7, Len(all))

\* "Handle negative numbers": for i from len(content) to 7 the byte at bit
\* 8*(7-i) of value, which is byte i+1 counted from the most significant
\* one, is set to 0xFF
SignFill(value, n) == [k \in 1..8 |-> IF k >= n + 1 THEN 255 ELSE value[k]]

formatPrimitiveContent(tag, content) ==
    IF tag = 1
    THEN IF Len(content) = 1
         THEN IF content[1] = 0 THEN <<"F", "A", "L", "S", "E">>
              ELSE <<"T", "R", "U", "E">>
         ELSE EncodeToString(content)
    ELSE IF tag = TagInteger
    THEN IF Len(content) <= 8
         THEN LET value == IntegerValue(content)
                  signed == IF Len(content) > 0 /\ content[1] >= 128
                            THEN SignFill(value, Len(content))
                            ELSE value
              IN  FormatI64(signed) \o <<" ", "(", "0", "x">>
                  \o HexWith(UpperHex, content) \o <<")">>
         ELSE EncodeToString(content)
    ELSE IF tag = TagBitString
    THEN IF Len(content) > 0
         THEN LET unusedBits == content[1]
                  data == SubSeq(content, 2, Len(content))
              IN  <<"u", "n", "u", "s", "e", "d", " ", "b", "i", "t", "s", ":",
                    " ">> \o FormatNat(unusedBits)
                  \o <<",", " ", "d", "a", "t", "a", ":", " ">>
                  \o HexOrCut(data)
         ELSE EncodeToString(content)
    ELSE IF tag = TagOctetString THEN HexOrCut(content)
    ELSE IF tag = TagNull THEN <<>>
    ELSE IF tag = TagObjectID
    THEN LET Named(oid) ==
                 IF \E e \in oidNames : e[1] = oid
                 THEN oid \o <<" ", "(">>
                      \o (CHOOSE e \in oidNames : e[1] = oid)[2] \o <<")">>
                 ELSE oid
         IN  Named(parseOID(content))
    ELSE IF tag \in {TagUTF8String, TagPrintable, TagT61String, TagIA5String,
                     TagUTCTime, TagGeneralTime}
    THEN Quote(content)
    ELSE HexOrCut(content)

(***************************************************************************)
(* parseASN1Element                                                        *)
(***************************************************************************)
\* ASN1Element{}; Length is kept as a 64-bit int, the other int fields stay
\* far below 2^31
ZeroElement ==
    [Depth |-> 0, Offset |-> 0, HeaderLen |-> 0, Length |-> I64Zero,
     Tag |-> 0, Class |-> 0, IsCompound |-> FALSE,
     TagName |-> <<>>, Content |-> <<>>]

\* the loop keeping only the octet read last
LengthOctetsLast(data, bytesRead, n) ==
    SubSeq(I64Zero, 1, 7) \o <<data[bytesRead + n]>>

\* The loop over the long-form length octets data[bytesRead] ..
\* data[bytesRead+n-1]: element.Length after it, as a 64-bit int.  Each
\* round is I64ShlOr, which drops the top byte and appends the octet, so
\* after n rounds from zero the value is the last eight bytes of eight
\* zero bytes followed by the n octets.
LengthOctets(data, bytesRead, n) ==
    LET all == I64Zero \o SubSeq(data, bytesRead + 1, bytesRead + n)
    IN  SubSeq(all, Len(all) - 7, Len(all))

\* The result of one call: the element, the consumed-byte count (a 64-bit
\* int), the error ("nil" for none) and whether the call faulted (a Go
\* run-time panic: slice bounds out of range) instead of returning.
ParseResult(element, bytesRead, err) ==
    [element |-> element, bytesRead |-> bytesRead, err |-> err, panic |-> FALSE]

ParsePanic(element) ==
    [element |-> element, bytesRead |-> I64Zero, err |-> "nil", panic |-> TRUE]

\* the error and fault checks that follow the length parse
ParseTail(data, element, length64) ==
    LET named == [element EXCEPT
                     !.Length = length64,
                     !.TagName = getTagName(element.Tag, element.IsCompound)]
        \* element.HeaderLen + element.Length, wrapping at 64 bits
        totalBytes == I64AddNat(length64, named.HeaderLen)
        hasContent == ~named.IsCompound /\ I64Positive(length64)
                      /\ ~I64Less(I64Of(Len(data)), totalBytes)
        \* the return statements, el being the element as filled in so far
        Returns(el) ==
            IF hasContent /\ ~SliceOK(data, named.HeaderLen, totalBytes)
            THEN ParsePanic(el)
            ELSE IF I64Less(I64Of(Len(data)), totalBytes)
            THEN ParseResult(el, I64Zero,
                             "element extends beyond available data")
            ELSE ParseResult(el, totalBytes, "nil")
    IN  Returns(IF hasContent /\ SliceOK(data, named.HeaderLen, totalBytes)
                THEN [named EXCEPT !.Content =
                         formatPrimitiveContent(named.Tag,
                             Slice(data, named.HeaderLen,
                                   I64Int(totalBytes)))]
                ELSE named)

parseASN1Element(data, depth, offset) ==
    IF Len(data) < 2
    THEN ParseResult(ZeroElement, I64Zero,
                     "insufficient data for ASN.1 element")
    ELSE
    LET tagByte == data[1]
        lengthByte == data[2]
        element == [ZeroElement EXCEPT
                       !.Depth = depth,
                       !.Offset = offset,
                       !.Class = tagByte \div 64,
                       !.IsCompound = ((tagByte \div 32) % 2 = 1),
                       !.Tag = tagByte % 32]
        lengthOctets == lengthByte % 128
    IN  IF lengthByte < 128
        THEN ParseTail(data, [element EXCEPT !.HeaderLen = 2],
                       I64AddNat(I64Zero, lengthByte))
        ELSE IF lengthOctets = 0
        THEN ParseResult(element, I64Zero, "indefinite length not supported")
        ELSE IF Len(data) < 2 + lengthOctets
        THEN ParseResult(element, I64Zero,
                         "insufficient data for length octets")
        ELSE ParseTail(data, [element EXCEPT !.HeaderLen = 2 + lengthOctets],
                       LengthOctets(data, 2, lengthOctets))

(***************************************************************************)
(* encoding/asn1: Unmarshal into a RawValue, as FindValidSignature calls   *)
(* it.  The window always starts with the tag byte 0x30, so the library's  *)
(* branch for tag numbers of 31 and more is never entered from here.       *)
(***************************************************************************)
RECURSIVE DERLength(_, _, _, _)
\* the length-octet loop of the library's parseTagAndLength:
\* [err, length, offset]
DERLength(bytes, offset, numBytes, length) ==
    IF numBytes = 0
    THEN IF length < 128
         THEN [err |-> "non-minimal length", length |-> length, offset |-> offset]
         ELSE [err |-> "nil", length |-> length, offset |-> offset]
    ELSE IF offset >= Len(bytes)
    THEN [err |-> "truncated tag or length", length |-> length, offset |-> offset]
    ELSE IF length >= 2 ^ 23
    THEN [err |-> "length too large", length |-> length, offset |-> offset + 1]
    ELSE LET l == length * 256 + bytes[offset + 1]
         IN  IF l = 0
             THEN [err |-> "superfluous leading zeros in length",
                   length |-> l, offset |-> offset + 1]
             ELSE DERLength(bytes, offset + 1, numBytes - 1, l)

\* the library's parseTagAndLength on a window whose tag number is below 31
parseTagAndLength(bytes) ==
    IF Len(bytes) < 2
    THEN [err |-> "truncated tag or length", length |-> 0, offset |-> Len(bytes)]
    ELSE LET b == bytes[2]
         IN  IF b < 128 THEN [err |-> "nil", length |-> b, offset |-> 2]
             ELSE IF b = 128
             THEN [err |-> "indefinite length found (not DER)",
                   length |-> 0, offset |-> 2]
             ELSE DERLength(bytes, 2, b % 128, 0)

\* Unmarshal keeping the bytes after the structure in FullBytes
UnmarshalWithRest(buffer) ==
    LET t == parseTagAndLength(buffer)
    IN  IF Len(buffer) = 0
        THEN [err |-> "sequence truncated", FullBytes |-> <<>>]
        ELSE IF t.err # "nil" THEN [err |-> t.err, FullBytes |-> <<>>]
        ELSE IF t.offset + t.length > Len(buffer)
        THEN [err |-> "data truncated", FullBytes |-> <<>>]
        ELSE [err |-> "nil", FullBytes |-> buffer]

\* asn1.Unmarshal(buffer, &raw): the error and raw.FullBytes
Unmarshal(buffer) ==
    LET t == parseTagAndLength(buffer)
    IN  IF Len(buffer) = 0
        THEN [err |-> "sequence truncated", FullBytes |-> <<>>]
        ELSE IF t.err # "nil" THEN [err |-> t.err, FullBytes |-> <<>>]
        ELSE IF t.offset + t.length > Len(buffer)
        THEN [err |-> "data truncated", FullBytes |-> <<>>]
        ELSE [err |-> "nil", FullBytes |-> Slice(buffer, 0, t.offset + t.length)]

(***************************************************************************)
(* SignatureValidation                                                     *)
(***************************************************************************)
\* SignatureValidation{}
ZeroValidation ==
    [HasCommonName |-> FALSE, HasCountryName |-> FALSE,
     HasLocalityName |-> FALSE, HasOrganizationName |-> FALSE,
     HasEmailAddress |-> FALSE,
     CommonName |-> <<>>, CountryName |-> <<>>, LocalityName |-> <<>>,
     OrganizationName |-> <<>>, EmailAddress |-> <<>>]

\* IsValid with the last attribute forgotten
IsValidWithoutEmail(sv) ==
    sv.HasCommonName /\ sv.HasCountryName /\ sv.HasLocalityName
    /\ sv.HasOrganizationName

IsValid(sv) ==
    sv.HasCommonName /\ sv.HasCountryName /\ sv.HasLocalityName
    /\ sv.HasOrganizationName /\ sv.HasEmailAddress

\* setValidationField with the country and locality cases exchanged
setValidationFieldExchanged(validation, oid, value) ==
    IF oid = OIDCommonName
    THEN [validation EXCEPT !.HasCommonName = TRUE, !.CommonName = value]
    ELSE IF oid = OIDLocalityName
    THEN [validation EXCEPT !.HasCountryName = TRUE, !.CountryName = value]
    ELSE IF oid = OIDCountryName
    THEN [validation EXCEPT !.HasLocalityName = TRUE, !.LocalityName = value]
    ELSE IF oid = OIDOrganizationName
    THEN [validation EXCEPT !.HasOrganizationName = TRUE,
                            !.OrganizationName = value]
    ELSE IF oid = OIDEmailAddress
    THEN [validation EXCEPT !.HasEmailAddress = TRUE, !.EmailAddress = value]
    ELSE validation

setValidationField(validation, oid, value) ==
    IF oid = OIDCommonName
    THEN [validation EXCEPT !.HasCommonName = TRUE, !.CommonName = value]
    ELSE IF oid = OIDCountryName
    THEN [validation EXCEPT !.HasCountryName = TRUE, !.CountryName = value]
    ELSE IF oid = OIDLocalityName
    THEN [validation EXCEPT !.HasLocalityName = TRUE, !.LocalityName = value]
    ELSE IF oid = OIDOrganizationName
    THEN [validation EXCEPT !.HasOrganizationName = TRUE,
                            !.OrganizationName = value]
    ELSE IF oid = OIDEmailAddress
    THEN [validation EXCEPT !.HasEmailAddress = TRUE, !.EmailAddress = value]
    ELSE validation

(***************************************************************************)
(* Input buffers.  encoding/asn1 accepts the marker 0x30 0x82 only with a  *)
(* minimal two-octet length, so every decodable candidate has at least 256 *)
(* content bytes; each body below is padded to that size with one          *)
(* OCTET STRING.                                                           *)
(***************************************************************************)
\* junk bytes before the structure: 0..MaxPrefix of them
MaxPrefix == 1
\* bytes after the structure: 0..MaxSuffix of them
MaxSuffix == 4
\* FindValidSignature is run this many times on a buffer
MaxRuns == 2
\* content bytes of a padded candidate body
BodyLen == 256

Zeros(n) == [k \in 1..n |-> 0]

\* DER length octets of n
EncLen(n) ==
    IF n < 128 THEN <<n>>
    ELSE IF n < 256 THEN <<129, n>>
    ELSE <<130, n \div 256, n % 256>>

TLV(tagByte, content) == <<tagByte>> \o EncLen(Len(content)) \o content

\* OBJECT IDENTIFIER contents
EncCommonName == <<85, 4, 3>>
EncCountryName == <<85, 4, 6>>
EncLocalityName == <<85, 4, 7>>
EncOrganizationName == <<85, 4, 10>>
EncEmailAddress == <<42, 134, 72, 134, 247, 13, 1, 9, 1>>

\* OID followed by a UTF8String value
Attr(oid, value) == TLV(6, oid) \o TLV(12, value)

\* AttributeTypeAndValue inside SET inside SEQUENCE, as in a certificate name
RDN(oid, value) == TLV(49, TLV(48, Attr(oid, value)))

RECURSIVE Nest(_, _)
\* inner wrapped in n SEQUENCEs
Nest(n, inner) == IF n = 0 THEN inner ELSE TLV(48, Nest(n - 1, inner))

\* a primitive element whose 8-octet length is the 64-bit value -k
NegLen(k) == <<4, 136, 255, 255, 255, 255, 255, 255, 255, 256 - k>>

\* a primitive element whose 8-octet length is 2^63 - 1
HugeLen == <<4, 136, 127, 255, 255, 255, 255, 255, 255, 255>>

Flat5 ==
    Attr(EncCommonName, <<65>>) \o Attr(EncCountryName, <<85, 83>>)
    \o Attr(EncLocalityName, <<76>>) \o Attr(EncOrganizationName, <<79>>)
    \o Attr(EncEmailAddress, <<97, 64, 98>>)

Nested5 ==
    TLV(48, RDN(EncCountryName, <<85, 83>>) \o RDN(EncOrganizationName, <<79>>)
            \o RDN(EncLocalityName, <<76>>) \o RDN(EncCommonName, <<65>>)
            \o RDN(EncEmailAddress, <<97, 64, 98>>))

Partial3 ==
    Attr(EncCommonName, <<65>>) \o Attr(EncCountryName, <<85, 83>>)
    \o Attr(EncLocalityName, <<76>>)

Partial2 ==
    Attr(EncOrganizationName, <<79>>) \o Attr(EncEmailAddress, <<97, 64, 98>>)

\* SEQUENCE { INTEGER 1 }: decodable, no certificate OID
NoOID == TLV(48, TLV(2, <<1>>))

\* the common name's value is empty
EmptyValue == Attr(EncCommonName, <<>>) \o Partial2 \o
              Attr(EncCountryName, <<85, 83>>) \o Attr(EncLocalityName, <<76>>)

\* an OCTET STRING whose content carries the marker
InnerMarker == Flat5 \o TLV(4, <<48, 130, 255, 255, 48, 130, 0, 8>>)

\* every attribute but the e-mail address
NoEmail == Partial3 \o Attr(EncOrganizationName, <<79>>)

Bodies ==
    <<Flat5, Nested5, Partial3, Partial2, NoEmail, NoOID, EmptyValue,
      InnerMarker, Flat5 \o NegLen(11), NegLen(11) \o Flat5,
      NegLen(10) \o Flat5, Flat5 \o HugeLen, Nest(6, Flat5)>>

\* body followed by one OCTET STRING of zeros, n bytes in all
PadTo(body, n) ==
    LET need == n - Len(body)
    IN  IF need - 2 < 128 THEN body \o TLV(4, Zeros(need - 2))
        ELSE body \o TLV(4, Zeros(need - 3))

\* 0x30 0x82 <2-octet length> content
Sig(content) == TLV(48, content)

Candidate(body) == Sig(PadTo(body, BodyLen))

\* the k-th byte outside the structure: 0x30 0x82 0xFF 0xFF, then 0xAA
JunkByte(k) ==
    IF k = 1 THEN 48 ELSE IF k = 2 THEN 130 ELSE IF k \in {3, 4} THEN 255 ELSE 170

Junk(n) == [k \in 1..n |-> JunkByte(k)]

Buffers ==
    {Junk(p) \o Candidate(Bodies[b]) \o Junk(q) :
        p \in 0..MaxPrefix, b \in 1..Len(Bodies), q \in 0..MaxSuffix}
    \cup {Candidate(Flat5) \o Candidate(Partial3),
          Candidate(Partial2) \o Junk(1) \o Candidate(Partial3),
          Candidate(Flat5) \o Candidate(Flat5),
          Junk(1) \o Candidate(Flat5) \o Candidate(NoOID) \o Junk(2),
          Candidate(Flat5) \o Candidate(Flat5 \o NegLen(11))}
    \cup {Junk(q) : q \in 0..MaxSuffix}
    \cup {<<48, 130, 0, 8, 48, 3, 2, 1, 1, 0, 0, 0>>,
          <<170, 48, 130, 0, 8, 48, 3, 2, 1, 1, 5, 0, 0>>}

(***************************************************************************)
(* State                                                                   *)
(***************************************************************************)
VARIABLES
    data,        \* sp.data, the whole buffer
    pc,          \* where main / FindValidSignature stands
    i,           \* FindValidSignature's loop variable
    raw,         \* raw.FullBytes of the last successful asn1.Unmarshal
    validation,  \* the SignatureValidation being filled by the walk
    stack,       \* the active calls of the recursive walker, innermost last
    last,        \* what the walker's last parseASN1Element call returned
    rejected,    \* candidates FindValidSignature has passed over in this run
    sets,        \* OIDs given to setValidationField during the current walk
    match,       \* what FindValidSignature returned in this run
    outcomes,    \* the outcomes of the earlier runs on this buffer
    call,        \* a direct call of one function: its name and arguments
    ret,         \* what that call returned
    keySize,     \* calculateKeySize's local variable keySize
    emitted,     \* what ASN1Displayer has printed, in order
    saved,       \* the content of the output file, empty if none was written
    callers      \* the goroutines walking one buffer, each with its own state

vars == <<data, pc, i, raw, validation, stack, last, rejected, sets, match,
          outcomes, call, ret, keySize, emitted, saved, callers>>

\* no direct call is under way
NoCall == [fn |-> "none"]

NoMatch == [offset |-> 0, FullBytes |-> <<>>, validation |-> ZeroValidation]

\* the start of FindValidSignature's loop
ScanStart(d) == Len(d) - 2

\* the loop stepping down by two
ScanNextByTwo(k) == k - 2

\* the loop's i--
ScanNext(k) == k - 1

\* the marker test
IsMarker(d, k) == d[k + 1] = 48 /\ d[k + 2] = 130

\* validation := SignatureValidation{} at the head of validateSignatureFields
NewValidation(old) == ZeroValidation

\* One call of the walker: its data argument is bytes lo..hi-1 (Go indices)
\* of the byte range the outermost call was given, offset is its local
\* variable, a 64-bit int.
Frame(lo, hi) == [lo |-> lo, hi |-> hi, offset |-> I64Zero]

\* the outermost call of the walker on a byte range
RootFrame(bytes) == Frame(0, Len(bytes))

Init ==
    /\ data \in Buffers
    /\ pc = "scan"
    /\ i = ScanStart(data)
    /\ raw = <<>>
    /\ validation = ZeroValidation
    /\ stack = <<>>
    /\ last = [err |-> "none", bytesRead |-> I64Zero]
    /\ rejected = {}
    /\ sets = {}
    /\ match = NoMatch
    /\ outcomes = <<>>
    /\ call = NoCall
    /\ ret = NoCall
    /\ keySize = I64Zero
    /\ emitted = <<>>
    /\ saved = <<>>
    /\ callers = <<>>

(***************************************************************************)
(* FindValidSignature                                                      *)
(***************************************************************************)
\* one iteration at an offset without the marker
ScanSkip ==
    /\ pc = "scan"
    /\ i >= 0
    /\ ~IsMarker(data, i)
    /\ i' = ScanNext(i)
    /\ UNCHANGED <<data, pc, raw, validation, stack, last, rejected, sets,
                   match, outcomes, call, ret>>
    /\ UNCHANGED <<keySize, emitted, saved, callers>>

\* one iteration at a marker that asn1.Unmarshal refuses
ScanDecodeFail ==
    /\ pc = "scan"
    /\ i >= 0
    /\ IsMarker(data, i)
    /\ Unmarshal(SliceFrom(data, i)).err # "nil"
    /\ i' = ScanNext(i)
    /\ rejected' = rejected \cup {[offset |-> i, why |-> "decode"]}
    /\ UNCHANGED <<data, pc, raw, validation, stack, last, sets, match,
                   outcomes, call, ret>>
    /\ UNCHANGED <<keySize, emitted, saved, callers>>

\* one iteration at a marker that decodes: validateSignatureFields starts
ScanDecoded ==
    /\ pc = "scan"
    /\ i >= 0
    /\ IsMarker(data, i)
    /\ LET u == Unmarshal(SliceFrom(data, i))
       IN  /\ u.err = "nil"
           /\ raw' = u.FullBytes
           /\ stack' = <<RootFrame(u.FullBytes)>>
    /\ validation' = NewValidation(validation)
    /\ sets' = {}
    /\ pc' = "validating"
    /\ UNCHANGED <<data, i, last, rejected, match, outcomes, call, ret>>
    /\ UNCHANGED <<keySize, emitted, saved, callers>>

\* the walk has returned: the candidate is accepted or passed over
Decide ==
    /\ pc = "validating"
    /\ stack = <<>>
    /\ IF IsValid(validation)
       THEN /\ pc' = "accepted"
            /\ match' = [offset |-> i, FullBytes |-> raw,
                         validation |-> validation]
            /\ UNCHANGED <<i, rejected>>
       ELSE /\ pc' = "scan"
            /\ i' = ScanNext(i)
            /\ rejected' = rejected \cup {[offset |-> i, why |-> "fields"]}
            /\ UNCHANGED match
    /\ UNCHANGED <<data, raw, validation, stack, last, sets, outcomes, call, ret>>
    /\ UNCHANGED <<keySize, emitted, saved, callers>>

\* the loop has run out: errors.New("no valid signature found")
Exhaust ==
    /\ pc = "scan"
    /\ i < 0
    /\ pc' = "exhausted"
    /\ UNCHANGED <<data, i, raw, validation, stack, last, rejected, sets,
                   match, outcomes, call, ret>>
    /\ UNCHANGED <<keySize, emitted, saved, callers>>

(***************************************************************************)
(* findFieldsInASN1: one action per loop iteration, one per return.  A     *)
(* recursive call pushes a frame; the caller's offset += bytesRead is      *)
(* applied when the call is made, the caller reads nothing in between.     *)
(***************************************************************************)
\* the limits TESTING.md documents
MaxRecursionDepth == 50
MaxElementsPerLevel == 10000

\* NULL elements (0x05 0x00) side by side, MaxElementsPerLevel + 1 of them
NullElements ==
    [k \in 1..(2 * (MaxElementsPerLevel + 1)) |-> IF k % 2 = 1 THEN 5 ELSE 0]

Top == stack[Len(stack)]

\* the bytes a direct call was given
ArgBytes(c) ==
    IF "siblings" \in DOMAIN c THEN SubSeq(NullElements, 1, 2 * c.siblings)
    ELSE c.data

\* the byte range the outermost call of the walker was given
WalkBytes == IF pc = "fields" THEN ArgBytes(call) ELSE raw

\* the data argument of a call of the walker, and its len()
FrameData(f) == Slice(WalkBytes, f.lo, f.hi)

FrameLen(f) == f.hi - f.lo

Pop == SubSeq(stack, 1, Len(stack) - 1)

Walking == pc \in {"validating", "main_validating", "fields"}

\* the branch recording the value element's content also when it is empty
OIDBranchAnyLength(d, offset, r, v) ==
    LET el == r.element
        lo == offset + el.HeaderLen
        hi == I64AddNat(el.Length, lo)
        valueOffset == I64AddNat(r.bytesRead, offset)
        none == [panic |-> FALSE, validation |-> v, sets |-> {}]
        fault == [panic |-> TRUE, validation |-> v, sets |-> {}]
        \* ve: valueElement and err of the parse at valueOffset
        Value(oid, ve) ==
            LET vlo == I64Int(valueOffset) + ve.element.HeaderLen
                vhi == I64AddNat(ve.element.Length, vlo)
            IN  IF ve.panic THEN fault
                ELSE IF ve.err = "nil" /\ ~ve.element.IsCompound
                        /\ ~I64IsNeg(ve.element.Length)
                THEN IF ~SliceOK(d, vlo, vhi) THEN fault
                     ELSE [panic |-> FALSE,
                           validation |->
                               setValidationField(v, oid,
                                   Slice(d, vlo, I64Int(vhi))),
                           sets |-> {oid}]
                ELSE none
    IN  IF ~(el.Tag = TagObjectID /\ I64Positive(el.Length)) THEN none
        ELSE IF ~SliceOK(d, lo, hi) THEN fault
        ELSE IF ~I64Less(valueOffset, I64Of(Len(d))) THEN none
        ELSE IF I64IsNeg(valueOffset) THEN fault
        ELSE Value(parseOID(Slice(d, lo, I64Int(hi))),
                   parseASN1Element(SliceFrom(d, I64Int(valueOffset)), 0,
                                    I64Int(valueOffset)))

\* "Check if this is an OID we're looking for": the validation after the
\* branch, the OIDs handed to setValidationField, and whether it faulted;
\* offset is the caller's offset, inside its data
OIDBranch(d, offset, r, v) ==
    LET el == r.element
        lo == offset + el.HeaderLen
        hi == I64AddNat(el.Length, lo)
        valueOffset == I64AddNat(r.bytesRead, offset)
        none == [panic |-> FALSE, validation |-> v, sets |-> {}]
        fault == [panic |-> TRUE, validation |-> v, sets |-> {}]
        \* ve: valueElement and err of the parse at valueOffset
        Value(oid, ve) ==
            LET vlo == I64Int(valueOffset) + ve.element.HeaderLen
                vhi == I64AddNat(ve.element.Length, vlo)
            IN  IF ve.panic THEN fault
                ELSE IF ve.err = "nil" /\ ~ve.element.IsCompound
                        /\ I64Positive(ve.element.Length)
                THEN IF ~SliceOK(d, vlo, vhi) THEN fault
                     ELSE [panic |-> FALSE,
                           validation |->
                               setValidationField(v, oid,
                                   Slice(d, vlo, I64Int(vhi))),
                           sets |-> {oid}]
                ELSE none
    IN  IF ~(el.Tag = TagObjectID /\ I64Positive(el.Length)) THEN none
        ELSE IF ~SliceOK(d, lo, hi) THEN fault
        ELSE IF ~I64Less(valueOffset, I64Of(Len(d))) THEN none
        ELSE IF I64IsNeg(valueOffset) THEN fault
        ELSE Value(parseOID(Slice(d, lo, I64Int(hi))),
                   parseASN1Element(SliceFrom(d, I64Int(valueOffset)), 0,
                                    I64Int(valueOffset)))

\* "Recursively search in compound elements": the frames of the recursive
\* call, if it is made
ChildFrames(f, d, offset, r) ==
    LET el == r.element
        contentStart == el.HeaderLen
    IN  IF el.IsCompound /\ I64Positive(el.Length)
           /\ I64Less(I64Of(contentStart), r.bytesRead)
           /\ ~I64Less(I64Of(Len(SliceFrom(d, offset)) - contentStart),
                       el.Length)
        THEN <<Frame(f.lo + offset + contentStart,
                     f.lo + offset + contentStart + I64Int(el.Length))>>
        ELSE <<>>

\* the caller's frame after offset += bytesRead
Advance(f, r) == [f EXCEPT !.offset = I64Add(f.offset, r.bytesRead)]

Fault ==
    /\ pc' = "panic"
    /\ UNCHANGED <<stack, validation, sets>>

WalkStep ==
    /\ Walking
    /\ stack # <<>>
    /\ I64Less(Top.offset, I64Of(FrameLen(Top)))
    /\ IF I64IsNeg(Top.offset)
       THEN \* data[offset:] with a negative offset
            /\ Fault
            /\ UNCHANGED last
       ELSE
       LET f == Top
           d == FrameData(f)
           offset == I64Int(f.offset)
           \* r: element, bytesRead and err of the parse; ob: the branch
           Iteration(r, ob) ==
               /\ last' = [err |-> IF r.panic THEN "panic" ELSE r.err,
                           bytesRead |-> r.bytesRead]
               /\ IF r.panic THEN Fault
                  ELSE IF r.err # "nil"
                  THEN \* break
                       /\ stack' = Pop
                       /\ UNCHANGED <<pc, validation, sets>>
                  ELSE IF ob.panic THEN Fault
                  ELSE /\ validation' = ob.validation
                       /\ sets' = sets \cup ob.sets
                       /\ stack' = Pop \o <<Advance(f, r)>>
                                       \o ChildFrames(f, d, offset, r)
                       /\ UNCHANGED pc
           Parsed(r) == Iteration(r, OIDBranch(d, offset, r, validation))
       IN  Parsed(parseASN1Element(SliceFrom(d, offset), 0, offset))
    /\ UNCHANGED <<data, i, raw, rejected, match, outcomes, call, ret>>
    /\ UNCHANGED <<keySize, emitted, saved, callers>>

\* the loop condition fails: the call returns
WalkReturn ==
    /\ Walking
    /\ stack # <<>>
    /\ ~I64Less(Top.offset, I64Of(FrameLen(Top)))
    /\ stack' = Pop
    /\ UNCHANGED <<data, pc, i, raw, validation, last, rejected, sets, match,
                   outcomes, call, ret>>
    /\ UNCHANGED <<keySize, emitted, saved, callers>>

(***************************************************************************)
(* calculateKeySize / findLastOctetString.  Every call of                  *)
(* findLastOctetString has its own offset and lastElement; keySize is      *)
(* shared through the pointer.  One action per loop iteration; the         *)
(* statements after the loop run in the step that leaves it.               *)
(***************************************************************************)
\* a call of findLastOctetString: offset := 0, var lastElement ASN1Element
KeyFrame(lo, hi) ==
    [lo |-> lo, hi |-> hi, offset |-> I64Zero, lastElement |-> ZeroElement]

\* calculateKeySize runs inside main or as a direct call
KeyWalking == pc \in {"main_keysize", "keysize"}

\* the byte range calculateKeySize was given
KeyBytes == IF pc = "keysize" THEN ArgBytes(call) ELSE raw

\* the data argument of a call of findLastOctetString
KeyFrameData(f) == Slice(KeyBytes, f.lo, f.hi)

\* "Check if the last element is an OCTET STRING and calculate key size":
\* keySize after the call whose last element is lastElement returns
KeySizeAfter(lastElement, old) ==
    LET twice == I64Add(lastElement.Length, lastElement.Length)
        fourfold == I64Add(twice, twice)
    IN  IF lastElement.Tag = TagOctetString
        THEN I64Add(fourfold, fourfold)  \* lastElement.Length * 8, wrapping
        ELSE old

\* the frame of the recursive call, if it is made
KeyChildFrames(f, d, r) ==
    LET el == r.element
        contentStart == el.HeaderLen
        offset == I64Int(f.offset)
    IN  IF el.IsCompound /\ I64Positive(el.Length)
           /\ I64Less(I64Of(contentStart), r.bytesRead)
           /\ ~I64Less(I64Of(Len(SliceFrom(d, offset)) - contentStart),
                       el.Length)
        THEN <<KeyFrame(f.lo + offset + contentStart,
                        f.lo + offset + contentStart + I64Int(el.Length))>>
        ELSE <<>>

\* one iteration of the loop of the innermost call
KeyStep ==
    /\ KeyWalking
    /\ stack # <<>>
    /\ I64Less(Top.offset, I64Of(FrameLen(Top)))
    /\ IF I64IsNeg(Top.offset)
       THEN \* data[offset:] with a negative offset
            /\ pc' = "panic"
            /\ UNCHANGED <<stack, last, keySize>>
       ELSE
       LET f == Top
           d == KeyFrameData(f)
           \* r: element, bytesRead and err of the parse
           Iteration(r) ==
               /\ last' = [err |-> IF r.panic THEN "panic" ELSE r.err,
                           bytesRead |-> r.bytesRead]
               /\ IF r.panic
                  THEN /\ pc' = "panic"
                       /\ UNCHANGED <<stack, keySize>>
                  ELSE IF r.err # "nil"
                  THEN \* break, then the check after the loop, then return
                       /\ keySize' = KeySizeAfter(f.lastElement, keySize)
                       /\ stack' = Pop
                       /\ UNCHANGED pc
                  ELSE /\ stack' = Pop
                               \o <<[f EXCEPT
                                        !.lastElement = r.element,
                                        !.offset = I64Add(f.offset,
                                                          r.bytesRead)]>>
                               \o KeyChildFrames(f, d, r)
                       /\ UNCHANGED <<pc, keySize>>
       IN  Iteration(parseASN1Element(SliceFrom(d, I64Int(f.offset)),
                                      Len(stack) - 1, I64Int(f.offset)))
    /\ UNCHANGED <<data, i, raw, validation, rejected, sets, match, outcomes,
                   call, ret, emitted, saved, callers>>

\* the loop condition fails: the check after the loop, then return
KeyReturn ==
    /\ KeyWalking
    /\ stack # <<>>
    /\ ~I64Less(Top.offset, I64Of(FrameLen(Top)))
    /\ keySize' = KeySizeAfter(Top.lastElement, keySize)
    /\ stack' = Pop
    /\ UNCHANGED <<data, pc, i, raw, validation, last, rejected, sets, match,
                   outcomes, call, ret, emitted, saved, callers>>

\* calculateKeySize: return keySize
KeySizeReturn ==
    /\ pc = "keysize"
    /\ stack = <<>>
    /\ ret' = keySize
    /\ pc' = "returned"
    /\ UNCHANGED <<data, i, raw, validation, stack, last, rejected, sets,
                   match, outcomes, call, keySize, emitted, saved, callers>>

(***************************************************************************)
(* ASN1Displayer, as main runs it.  emitted holds, in order, the element  *)
(* of every displayElement call and the content of every hex dump.  One    *)
(* action per loop iteration of the innermost parseAndDisplayASN1 call;    *)
(* the step that ends the outermost call returns from Display.             *)
(***************************************************************************)
\* a call parseAndDisplayASN1(data, depth, baseOffset): data is bytes
\* lo..hi-1 of the bytes Display was given, offset := 0
DisplayFrame(lo, hi, depth, baseOffset) ==
    [lo |-> lo, hi |-> hi, offset |-> I64Zero, depth |-> depth,
     baseOffset |-> baseOffset]

\* Display(data, baseOffset)
DisplayRoot(bytes, baseOffset) == DisplayFrame(0, Len(bytes), 0, baseOffset)

\* main is inside displayer.Display(raw.FullBytes, offset)
Displaying == pc = "main_display"

\* the data argument of a call of parseAndDisplayASN1
DisplayFrameData(f) == Slice(raw, f.lo, f.hi)

\* where main is after Display has returned
AfterDisplay == "main_displayed"

\* the depth argument of the recursive call
ChildDepth(depth) == depth + 1

\* the baseOffset argument of the recursive call
ChildBase(baseOffset, offset, contentStart) ==
    baseOffset + offset + contentStart

\* the frame of the recursive call, if it is made
DisplayChildFrames(f, d, r) ==
    LET el == r.element
        contentStart == el.HeaderLen
        offset == I64Int(f.offset)
    IN  IF el.IsCompound /\ I64Positive(el.Length)
           /\ I64Less(I64Of(contentStart), r.bytesRead)
           /\ ~I64Less(I64Of(Len(SliceFrom(d, offset)) - contentStart),
                       el.Length)
        THEN <<DisplayFrame(f.lo + offset + contentStart,
                            f.lo + offset + contentStart
                                + I64Int(el.Length),
                            ChildDepth(f.depth),
                            ChildBase(f.baseOffset, offset, contentStart))>>
        ELSE <<>>

\* the call f returns err: its caller prints the hex dump of the content it
\* passed, or Display returns the error
DisplayFailed(f, err) ==
    /\ stack' = Pop
    /\ IF Len(stack) > 1
       THEN /\ emitted' = Append(emitted,
                              [kind |-> "hexdump", depth |-> f.depth,
                               text |-> EncodeToString(DisplayFrameData(f))])
            /\ UNCHANGED <<pc, ret>>
       ELSE /\ ret' = [err |-> err]
            /\ pc' = AfterDisplay
            /\ UNCHANGED emitted

DisplayStep ==
    /\ Displaying
    /\ stack # <<>>
    /\ I64Less(Top.offset, I64Of(FrameLen(Top)))
    /\ IF I64IsNeg(Top.offset)
       THEN \* data[offset:] with a negative offset
            /\ pc' = "panic"
            /\ UNCHANGED <<stack, last, emitted, ret>>
       ELSE
       LET f == Top
           d == DisplayFrameData(f)
           \* r: element, bytesRead and err of the parse
           Iteration(r) ==
               /\ last' = [err |-> IF r.panic THEN "panic" ELSE r.err,
                           bytesRead |-> r.bytesRead]
               /\ IF r.panic
                  THEN /\ pc' = "panic"
                       /\ UNCHANGED <<stack, emitted, ret>>
                  ELSE IF r.err # "nil" THEN DisplayFailed(f, r.err)
                  ELSE /\ emitted' = Append(emitted,
                                         [kind |-> "element",
                                          element |-> r.element])
                       /\ stack' = Pop \o <<Advance(f, r)>>
                                       \o DisplayChildFrames(f, d, r)
                       /\ UNCHANGED <<pc, ret>>
       IN  Iteration(parseASN1Element(SliceFrom(d, I64Int(f.offset)),
                                      f.depth,
                                      f.baseOffset + I64Int(f.offset)))
    /\ UNCHANGED <<data, i, raw, validation, rejected, sets, match, outcomes,
                   call, keySize, saved, callers>>

\* the loop condition fails: return nil
DisplayReturn ==
    /\ Displaying
    /\ stack # <<>>
    /\ ~I64Less(Top.offset, I64Of(FrameLen(Top)))
    /\ stack' = Pop
    /\ IF Len(stack) > 1
       THEN UNCHANGED <<pc, ret>>
       ELSE /\ ret' = [err |-> "nil"]
            /\ pc' = AfterDisplay
    /\ UNCHANGED <<data, i, raw, validation, last, rejected, sets, match,
                   outcomes, call, keySize, emitted, saved, callers>>

(***************************************************************************)
(* main, after FindValidSignature                                          *)
(***************************************************************************)
\* validation := parser.validateSignatureFields(raw.FullBytes)
MainValidate ==
    /\ pc = "accepted"
    /\ pc' = "main_validating"
    /\ validation' = NewValidation(validation)
    /\ sets' = {}
    /\ stack' = <<RootFrame(match.FullBytes)>>
    /\ UNCHANGED <<data, i, raw, last, rejected, match, outcomes, call, ret>>
    /\ UNCHANGED <<keySize, emitted, saved, callers>>

MainValidated ==
    /\ pc = "main_validating"
    /\ stack = <<>>
    /\ pc' = "main_validated"
    /\ UNCHANGED <<data, i, raw, validation, stack, last, rejected, sets,
                   match, outcomes, call, ret>>
    /\ UNCHANGED <<keySize, emitted, saved, callers>>

\* keySize := parser.calculateKeySize(raw.FullBytes)
MainKeySize ==
    /\ pc = "main_validated"
    /\ pc' = "main_keysize"
    /\ keySize' = I64Zero
    /\ stack' = <<KeyFrame(0, Len(raw))>>
    /\ UNCHANGED <<data, i, raw, validation, last, rejected, sets, match,
                   outcomes, call, ret, emitted, saved, callers>>

\* displayer.Display(raw.FullBytes, offset)
MainDisplay ==
    /\ pc = "main_keysize"
    /\ stack = <<>>
    /\ pc' = "main_display"
    /\ stack' = <<DisplayRoot(raw, match.offset)>>
    /\ emitted' = <<>>
    /\ UNCHANGED <<data, i, raw, validation, last, rejected, sets, match,
                   outcomes, call, ret, keySize, saved, callers>>

\* After Display: its error, if any, is printed with the raw bytes in
\* hexadecimal; then the structure is saved if the configuration asks for
\* it.
MainSave ==
    /\ pc = "main_displayed"
    /\ \E save \in BOOLEAN :
           saved' = IF save THEN raw ELSE saved
    /\ emitted' = IF ret.err # "nil"
                  THEN Append(emitted, [kind |-> "raw",
                                        text |-> EncodeToString(raw)])
                  ELSE emitted
    /\ pc' = "done"
    /\ UNCHANGED <<data, i, raw, validation, stack, last, rejected, sets,
                   match, outcomes, call, ret, keySize, callers>>

\* how a run ended
Ended == pc \in {"done", "exhausted", "panic"}

Outcome == [pc |-> pc, match |-> match, validation |-> validation]

\* the program is run again on the same buffer
Rerun ==
    /\ Ended
    /\ Len(outcomes) < MaxRuns - 1
    /\ outcomes' = Append(outcomes, Outcome)
    /\ pc' = "scan"
    /\ i' = ScanStart(data)
    /\ raw' = <<>>
    /\ stack' = <<>>
    /\ last' = [err |-> "none", bytesRead |-> I64Zero]
    /\ rejected' = {}
    /\ sets' = {}
    /\ match' = NoMatch
    /\ ret' = NoCall
    /\ keySize' = I64Zero
    /\ emitted' = <<>>
    /\ saved' = <<>>
    /\ validation' = ZeroValidation
    /\ UNCHANGED <<data, call, callers>>

Next ==
    \/ ScanSkip
    \/ ScanDecodeFail
    \/ ScanDecoded
    \/ Decide
    \/ Exhaust
    \/ WalkStep
    \/ WalkReturn
    \/ MainValidate
    \/ MainValidated
    \/ MainKeySize
    \/ KeyStep
    \/ KeyReturn
    \/ MainDisplay
    \/ DisplayStep
    \/ DisplayReturn
    \/ MainSave
    \/ Rerun

Spec == Init /\ [][Next]_vars

(***************************************************************************)
(* Direct calls of single functions, as the tests make them.               *)
(***************************************************************************)
\* bytes that follow an element in a window: 0..MaxTrail of them
MaxTrail == 2

\* the variables of main stand still during a direct call
Idle ==
    /\ data = <<>>
    /\ i = 0
    /\ raw = <<>>
    /\ last = [err |-> "none", bytesRead |-> I64Zero]
    /\ rejected = {}
    /\ sets = {}
    /\ match = NoMatch
    /\ outcomes = <<>>
    /\ keySize = I64Zero
    /\ emitted = <<>>
    /\ saved = <<>>
    /\ callers = <<>>

Prefixes(w) == {SubSeq(w, 1, k) : k \in 0..Len(w)}

\* elements given whole and cut at every byte boundary
ParseElements ==
    {<<48, 5, 1, 2, 3, 4, 5>>, <<2, 1, 255>>, <<48, 2, 1, 1>>,
     <<4, 130, 1, 0>> \o Zeros(256), <<4, 130, 0, 3, 1, 2, 3>>,
     <<12, 129, 2, 65, 66>>, <<5, 0>>, <<48, 128, 0, 0>>, <<48, 255>>,
     <<48, 130, 255, 255, 255>>, <<4, 131, 0, 0, 2, 9, 9>>,
     NegLen(10), NegLen(11), NegLen(1), HugeLen,
     <<48, 136, 127, 255, 255, 255, 255, 255, 255, 255>>,
     <<4, 137, 1, 0, 0, 0, 0, 0, 0, 0, 1, 9>>,
     <<48, 136, 128, 0, 0, 0, 0, 0, 0, 0>>,
     <<31, 1, 0>>, <<95, 1, 0>>, <<191, 0>>, <<6, 3, 85, 4, 3>>,
     <<164, 3, 2, 1, 1>>, <<100, 0>>, <<15, 1, 0>>, <<130, 1, 5>>,
     <<198, 1, 5>>, <<80, 0>>}

ParseWindows ==
    UNION {Prefixes(w) : w \in ParseElements}
    \cup {w \o [k \in 1..t |-> 170] : w \in ParseElements, t \in 1..MaxTrail}

ParseCalls ==
    {[fn |-> "parseASN1Element", data |-> w, depth |-> d, offset |-> o] :
        w \in ParseWindows,
        d \in {0, MaxRecursionDepth, MaxRecursionDepth + 1},
        o \in {0, 7}}

InitParse ==
    /\ Idle
    /\ pc = "call"
    /\ validation = ZeroValidation
    /\ stack = <<>>
    /\ call \in ParseCalls
    /\ ret = NoCall

CallParse ==
    /\ pc = "call"
    /\ call.fn = "parseASN1Element"
    /\ ret' = parseASN1Element(call.data, call.depth, call.offset)
    /\ pc' = "returned"
    /\ UNCHANGED <<data, i, raw, validation, stack, last, rejected, sets,
                   match, outcomes, call>>
    /\ UNCHANGED <<keySize, emitted, saved, callers>>

SpecParse == InitParse /\ [][CallParse]_vars

\* validateSignatureFields called on its own with one of the given
\* arguments
InitFields(calls) ==
    /\ Idle
    /\ pc = "fields"
    /\ call \in calls
    /\ validation = NewValidation(ZeroValidation)
    /\ stack = <<RootFrame(ArgBytes(call))>>
    /\ ret = NoCall

\* return validation
FieldsReturn ==
    /\ pc = "fields"
    /\ stack = <<>>
    /\ ret' = validation
    /\ pc' = "returned"
    /\ UNCHANGED <<data, i, raw, validation, stack, last, rejected, sets,
                   match, outcomes, call>>
    /\ UNCHANGED <<keySize, emitted, saved, callers>>

NextFields ==
    \/ WalkStep
    \/ WalkReturn
    \/ FieldsReturn

\* validateSignatureFields on n NULL elements (0x05 0x00) side by side; the
\* argument is named by n, ArgBytes gives its bytes
SiblingCalls ==
    {[fn |-> "validateSignatureFields", siblings |-> n] :
        n \in {3, MaxElementsPerLevel + 1}}

InitSiblings == InitFields(SiblingCalls)

SpecSiblings == InitSiblings /\ [][NextFields]_vars

\* Byte ranges for validateSignatureFields called on its own: attributes in
\* any order and at several depths, repeated attributes, an OID that ends
\* its region, OIDs followed by a constructed, an empty and a cut-off
\* element, an OID given as the value of an OID, elements of tag number 6
\* that are not OBJECT IDENTIFIERs (context class 0x86, constructed 0x26),
\* values whose length is given in nine and in three octets, and elements
\* whose length is 2^63 - 1, -2^63, -2^24 and 2^24.
FieldInputs ==
    {Flat5, Nested5, Partial3, NoEmail, EmptyValue, Nest(6, Flat5), NoOID,
     Attr(EncCommonName, <<66>>) \o Flat5,
     Flat5 \o Attr(EncCommonName, <<66>>),
     TLV(48, Attr(EncCommonName, <<66>>)) \o Attr(EncCommonName, <<67>>),
     Attr(EncCommonName, <<66>>) \o TLV(48, Attr(EncCommonName, <<67>>)),
     RDN(EncCountryName, <<85, 83>>) \o Nested5 \o RDN(EncCountryName, <<73, 84>>),
     TLV(48, TLV(6, EncCommonName)) \o TLV(12, <<65>>),
     TLV(6, EncCommonName) \o TLV(48, TLV(12, <<65>>))
         \o Attr(EncCountryName, <<85, 83>>),
     TLV(6, EncCommonName) \o <<12, 5, 65>>,
     TLV(6, EncCommonName) \o Attr(EncCountryName, <<85, 83>>),
     TLV(134, EncCommonName) \o TLV(12, <<90>>) \o NoEmail
         \o Attr(EncEmailAddress, <<97, 64, 98>>),
     TLV(134, EncCommonName) \o TLV(12, <<90>>) \o Partial2
         \o Attr(EncCountryName, <<85, 83>>) \o Attr(EncLocalityName, <<76>>),
     Attr(EncCommonName, <<65>>) \o Attr(EncCommonName, <<66>>)
         \o TLV(134, EncCommonName) \o TLV(12, <<90>>),
     TLV(38, EncCommonName) \o TLV(12, <<90>>),
     Flat5 \o <<48, 130>>,
     TLV(6, EncCommonName) \o <<12, 137, 1, 0, 0, 0, 0, 0, 0, 0, 1, 65>>,
     TLV(6, EncCommonName) \o <<12, 131, 0, 0, 1, 65>>,
     <<48, 136, 127, 255, 255, 255, 255, 255, 255, 255>>,
     <<48, 136, 128, 0, 0, 0, 0, 0, 0, 0>>,
     <<36, 136, 255, 255, 255, 255, 255, 0, 0, 0, 5, 0>>,
     Flat5 \o <<4, 132, 1, 0, 0, 0>>,
     <<>>}

FieldCalls ==
    {[fn |-> "validateSignatureFields", data |-> b] : b \in FieldInputs}

InitFieldCalls == InitFields(FieldCalls)

SpecFields == InitFieldCalls /\ [][NextFields]_vars

(***************************************************************************)
(* formatPrimitiveContent called on its own, as TestFormatPrimitiveContent *)
(* calls it.                                                               *)
(***************************************************************************)
\* INTEGER contents: every single byte; longer ones with the top bit clear
\* and set, of up to eight bytes and of nine; the empty content
IntegerContents ==
    {<<b>> : b \in 0..255}
    \cup {<<>>, <<1, 35>>, <<0, 128>>, <<127, 255>>, <<128, 0>>, <<255, 0>>,
          <<255, 255>>, <<255, 127, 1>>, <<128, 0, 0, 0>>,
          <<1, 0, 0, 0, 0>>, <<200, 1, 2, 3, 4, 5, 6>>,
          <<127, 255, 255, 255, 255, 255, 255, 255>>,
          <<128, 0, 0, 0, 0, 0, 0, 0>>,
          <<255, 255, 255, 255, 255, 255, 255, 255>>,
          <<255, 255, 255, 255, 255, 255, 255, 133>>,
          <<0, 255, 255, 255, 255, 255, 255, 255, 255>>}

\* contents for the other tags: those of the tests, text with characters
\* that are escaped, text of several bytes a character, well formed and
\* not, more than 32 bytes
OtherContents ==
    {<<>>, <<0>>, <<255>>, <<2>>, <<1, 2>>, <<0, 171, 205>>, <<85, 4, 3>>,
     <<42, 134, 72, 134, 247, 13, 1, 1, 1>>, <<85, 4, 134>>,
     <<84, 101, 115, 116, 32, 83, 116, 114, 105, 110, 103>>,
     <<65, 34, 92, 10, 127, 200>>, <<195, 169>>, <<194, 160>>,
     <<226, 128, 139>>, <<230, 151, 165, 230, 156, 172>>,
     <<224, 164, 133, 225, 188, 152>>,
     <<240, 159, 152, 128, 244, 143, 191, 191>>,
     <<240, 147, 144, 175, 240, 147, 144, 176>>,
     <<192, 128, 237, 160, 128, 226, 130>>, Zeros(33), Zeros(34)}

FormatCalls ==
    {[fn |-> "formatPrimitiveContent", tag |-> TagInteger, content |-> c] :
        c \in IntegerContents}
    \cup {[fn |-> "formatPrimitiveContent", tag |-> t, content |-> c] :
             t \in {1, TagBitString, TagOctetString, TagNull, TagObjectID,
                    TagUTF8String, TagUTCTime, 10, 30},
             c \in OtherContents}

InitFormat ==
    /\ Idle
    /\ pc = "call"
    /\ validation = ZeroValidation
    /\ stack = <<>>
    /\ call \in FormatCalls
    /\ ret = NoCall

CallFormat ==
    /\ pc = "call"
    /\ call.fn = "formatPrimitiveContent"
    /\ ret' = formatPrimitiveContent(call.tag, call.content)
    /\ pc' = "returned"
    /\ UNCHANGED <<data, i, raw, validation, stack, last, rejected, sets,
                   match, outcomes, call, keySize, emitted, saved, callers>>

SpecFormat == InitFormat /\ [][CallFormat]_vars

(***************************************************************************)
(* setValidationField called on its own, as TestSignatureValidation calls  *)
(* it: on a validation, with an OID string and a value.                    *)
(***************************************************************************)
\* the validations a call starts from: empty, one attribute set, all but
\* the e-mail address set, all five set
SetFieldValidations ==
    {ZeroValidation,
     [ZeroValidation EXCEPT !.HasCountryName = TRUE, !.CountryName = <<85, 83>>],
     [ZeroValidation EXCEPT
         !.HasCommonName = TRUE, !.CommonName = <<84, 101, 115, 116>>,
         !.HasCountryName = TRUE, !.CountryName = <<85, 83>>,
         !.HasLocalityName = TRUE, !.LocalityName = <<76>>,
         !.HasOrganizationName = TRUE, !.OrganizationName = <<79>>],
     [HasCommonName |-> TRUE, HasCountryName |-> TRUE,
      HasLocalityName |-> TRUE, HasOrganizationName |-> TRUE,
      HasEmailAddress |-> TRUE,
      CommonName |-> <<84, 101, 115, 116>>, CountryName |-> <<85, 83>>,
      LocalityName |-> <<76>>, OrganizationName |-> <<79>>,
      EmailAddress |-> <<97, 64, 98>>]}

\* the five OIDs, the OIDs of other attributes and algorithms as parseOID
\* gives them, a prefix of a recognized OID, the empty string
SetFieldOIDs ==
    {OIDCommonName, OIDCountryName, OIDLocalityName, OIDOrganizationName,
     OIDEmailAddress, parseOID(<<85, 4, 4>>), parseOID(<<85, 4>>),
     parseOID(<<42, 134, 72, 134, 247, 13, 1, 1, 1>>),
     parseOID(<<85, 4, 3, 0>>), <<>>}

SetFieldValues == {<<>>, <<90>>, <<68, 69>>}

SetFieldCalls ==
    {[fn |-> "setValidationField", validation |-> v, oid |-> o, value |-> x] :
        v \in SetFieldValidations, o \in SetFieldOIDs, x \in SetFieldValues}

InitSetField ==
    /\ Idle
    /\ pc = "call"
    /\ call \in SetFieldCalls
    /\ validation = call.validation
    /\ stack = <<>>
    /\ ret = NoCall

\* the call writes through the pointer it was given
CallSetField ==
    /\ pc = "call"
    /\ call.fn = "setValidationField"
    /\ validation' = setValidationField(validation, call.oid, call.value)
    /\ pc' = "returned"
    /\ UNCHANGED <<data, i, raw, stack, last, rejected, sets, match, outcomes,
                   call, ret, keySize, emitted, saved, callers>>

SpecSetField == InitSetField /\ [][CallSetField]_vars

(***************************************************************************)
(* Several goroutines walking one buffer, as TestConcurrency starts them:  *)
(* each makes its own SignatureParser and SignatureValidation and runs the *)
(* walker; the scheduler interleaves their loop iterations freely.         *)
(***************************************************************************)
\* goroutines started on the buffer
NumCallers == 2

\* the goroutine whose SignatureValidation every goroutine writes to, were
\* one validation handed to all of them
ValidationOfFirst(c) == 1

\* the goroutine whose SignatureValidation goroutine c writes to: each makes
\* its own (validation := &SignatureValidation{})
ValidationOf(c) == c

\* One loop iteration of the innermost findFieldsInASN1 call of a walk over
\* bytes with the active calls stk and the validation v: the calls and the
\* validation after it, and whether it faulted.
findFieldsIteration(bytes, stk, v) ==
    LET f == stk[Len(stk)]
        rest == SubSeq(stk, 1, Len(stk) - 1)
        d == Slice(bytes, f.lo, f.hi)
        offset == I64Int(f.offset)
        fault == [stack |-> stk, validation |-> v, panic |-> TRUE]
        \* r: element, bytesRead and err of the parse; ob: the branch
        Iteration(r, ob) ==
            IF r.panic THEN fault
            ELSE IF r.err # "nil"
            THEN [stack |-> rest, validation |-> v, panic |-> FALSE]
            ELSE IF ob.panic THEN fault
            ELSE [stack |-> rest \o <<Advance(f, r)>>
                                \o ChildFrames(f, d, offset, r),
                  validation |-> ob.validation, panic |-> FALSE]
        Parsed(r) == Iteration(r, OIDBranch(d, offset, r, v))
    IN  IF ~I64Less(f.offset, I64Of(FrameLen(f)))
        THEN [stack |-> rest, validation |-> v, panic |-> FALSE]
        ELSE IF I64IsNeg(f.offset) THEN fault
        ELSE Parsed(parseASN1Element(SliceFrom(d, offset), 0, offset))

\* the buffer of TestConcurrency, attributes side by side and nested, some
\* of them missing, one with an empty value, and the empty buffer
ConcurrentInputs ==
    {<<48, 5, 1, 2, 3, 4, 5>>, Flat5, Partial3, EmptyValue, <<>>,
     TLV(48, RDN(EncCommonName, <<65>>) \o RDN(EncCountryName, <<85, 83>>))}

\* a goroutine before it has started
NewCaller ==
    [pc |-> "start", stack |-> <<>>, validation |-> ZeroValidation,
     ret |-> NoCall]

InitConcurrent ==
    /\ data = <<>>
    /\ i = 0
    /\ raw = <<>>
    /\ last = [err |-> "none", bytesRead |-> I64Zero]
    /\ rejected = {}
    /\ sets = {}
    /\ match = NoMatch
    /\ outcomes = <<>>
    /\ keySize = I64Zero
    /\ emitted = <<>>
    /\ saved = <<>>
    /\ pc = "concurrent"
    /\ call \in {[fn |-> "go", data |-> b] : b \in ConcurrentInputs}
    /\ validation = ZeroValidation
    /\ stack = <<>>
    /\ ret = NoCall
    /\ callers = [c \in 1..NumCallers |-> NewCaller]

ConcurrentUnchanged ==
    UNCHANGED <<data, pc, i, raw, validation, stack, last, rejected, sets,
                match, outcomes, call, ret, keySize, emitted, saved>>

\* parser := NewSignatureParser(testData); validation :=
\* &SignatureValidation{}; the walker is called
CallerStart(c) ==
    /\ pc = "concurrent"
    /\ callers[c].pc = "start"
    /\ callers' = [callers EXCEPT
                      ![ValidationOf(c)].validation = ZeroValidation,
                      ![c].stack = <<RootFrame(call.data)>>,
                      ![c].pc = "walking"]
    /\ ConcurrentUnchanged

\* one loop iteration, or the return, of the goroutine's innermost call
CallerStep(c) ==
    /\ pc = "concurrent"
    /\ callers[c].pc = "walking"
    /\ callers[c].stack # <<>>
    /\ LET \* n: the calls and the validation after the iteration
           After(n) ==
               callers' = [callers EXCEPT
                              ![ValidationOf(c)].validation = n.validation,
                              ![c].stack = n.stack,
                              ![c].pc = IF n.panic THEN "panic"
                                        ELSE "walking"]
       IN  After(findFieldsIteration(call.data, callers[c].stack,
                                     callers[ValidationOf(c)].validation))
    /\ ConcurrentUnchanged

\* the outermost call has returned: the goroutine has its result
CallerDone(c) ==
    /\ pc = "concurrent"
    /\ callers[c].pc = "walking"
    /\ callers[c].stack = <<>>
    /\ callers' = [callers EXCEPT
                      ![c].ret = callers[ValidationOf(c)].validation,
                      ![c].pc = "returned"]
    /\ ConcurrentUnchanged

NextConcurrent ==
    \E c \in 1..NumCallers :
        \/ CallerStart(c)
        \/ CallerStep(c)
        \/ CallerDone(c)

SpecConcurrent == InitConcurrent /\ [][NextConcurrent]_vars

(***************************************************************************)
(* parseOID called on its own, as TestOIDRecognition calls it.             *)
(***************************************************************************)
\* bytes that follow the first byte in an OID content: 0..MaxOIDTail of them
\* are drawn from OIDTailBytes
MaxOIDTail == 2

OIDTailBytes == {0, 3, 127, 128, 134, 255}

\* every first byte alone and followed by short tails, the contents of the
\* tests, a sub-identifier of four bytes, one that is padded with 0x80, one
\* that is not ended when the content ends
OIDInputs ==
    {<<>>, <<85, 4, 3>>, <<42, 134, 72, 134, 247, 13, 1, 1, 1>>,
     EncEmailAddress, <<43, 255, 255, 255, 127>>, <<85, 128, 4, 3>>,
     <<85, 4, 134>>, <<85, 4, 134, 247>>}
    \cup {<<b>> : b \in 0..255}
    \cup {<<b>> \o t : b \in {0, 39, 40, 85, 119, 120, 255},
                      t \in UNION {[1..n -> OIDTailBytes] : n \in 1..MaxOIDTail}}

OIDCalls == {[fn |-> "parseOID", data |-> c] : c \in OIDInputs}

InitOID ==
    /\ Idle
    /\ pc = "call"
    /\ validation = ZeroValidation
    /\ stack = <<>>
    /\ call \in OIDCalls
    /\ ret = NoCall

CallParseOID ==
    /\ pc = "call"
    /\ call.fn = "parseOID"
    /\ ret' = parseOID(call.data)
    /\ pc' = "returned"
    /\ UNCHANGED <<data, i, raw, validation, stack, last, rejected, sets,
                   match, outcomes, call, keySize, emitted, saved, callers>>

SpecOID == InitOID /\ [][CallParseOID]_vars

(***************************************************************************)
(* calculateKeySize called on a byte range.                                *)
(***************************************************************************)
NextKeySize ==
    \/ KeyStep
    \/ KeyReturn
    \/ KeySizeReturn

\* Byte ranges for calculateKeySize: an OCTET STRING last at the top and
\* inside SEQUENCEs, other elements visited after an OCTET STRING, an empty
\* OCTET STRING, elements of tag number 4 that are not OCTET STRINGs
\* (context class 0x84 and 0xA4, constructed 0x24), a last element that is
\* cut off, elements whose length is 2^63 - 1, -2^63, -2^24 and 2^61 + 1.
KeyInputs ==
    {TLV(48, TLV(4, Zeros(BodyLen))),
     TLV(4, <<1, 2>>),
     TLV(48, TLV(2, <<1>>)),
     <<>>,
     TLV(48, TLV(48, TLV(4, <<1, 2, 3>>)) \o TLV(2, <<1>>)),
     TLV(48, TLV(4, <<9>>)) \o TLV(2, <<1>>),
     TLV(48, TLV(2, <<1>>) \o TLV(48, TLV(4, <<7, 7>>))),
     TLV(4, <<1>>) \o TLV(48, <<>>),
     TLV(48, TLV(4, <<>>)),
     TLV(4, <<1, 2>>) \o <<4, 5, 1>>,
     TLV(164, TLV(4, <<1, 2>>)),
     TLV(36, TLV(4, <<1, 2>>)),
     TLV(36, TLV(2, <<1>>)),
     TLV(132, <<1, 2, 3>>),
     Nested5 \o TLV(4, Zeros(32)),
     <<48, 136, 127, 255, 255, 255, 255, 255, 255, 255>>,
     <<48, 136, 128, 0, 0, 0, 0, 0, 0, 0>>,
     <<36, 136, 255, 255, 255, 255, 255, 0, 0, 0, 5, 0>>,
     <<4, 136, 32, 0, 0, 0, 0, 0, 0, 1, 7>>,
     Nested5}

KeyCalls == {[fn |-> "calculateKeySize", data |-> b] : b \in KeyInputs}

\* keySize := 0; sp.findLastOctetString(data, &keySize, 0)
InitKeySize ==
    /\ Idle
    /\ pc = "keysize"
    /\ call \in KeyCalls
    /\ validation = ZeroValidation
    /\ stack = <<KeyFrame(0, Len(ArgBytes(call)))>>
    /\ ret = NoCall

SpecKeySize == InitKeySize /\ [][NextKeySize]_vars

(***************************************************************************)
(* Properties                                                              *)
(***************************************************************************)
\* the offsets FindValidSignature has passed over as candidates
RejectedOffsets == {r.offset : r \in rejected}

FiveOIDs ==
    {OIDCommonName, OIDCountryName, OIDLocalityName, OIDOrganizationName,
     OIDEmailAddress}

\* C1: FindValidSignature returns success with offset i only if the marker
\* 0x30 0x82 is at i, asn1.Unmarshal of data[i:] succeeded and gave the bytes
\* returned, and the validation of those bytes has all five attributes, each
\* of them set while these bytes were walked.
C1_AcceptedOnlyIfComplete ==
    pc = "accepted" =>
        /\ match.offset \in 0..(Len(data) - 2)
        /\ data[match.offset + 1] = 48
        /\ data[match.offset + 2] = 130
        /\ Unmarshal(SliceFrom(data, match.offset)) =
               [err |-> "nil", FullBytes |-> match.FullBytes]
        /\ match.validation.HasCommonName
        /\ match.validation.HasCountryName
        /\ match.validation.HasLocalityName
        /\ match.validation.HasOrganizationName
        /\ match.validation.HasEmailAddress
        /\ FiveOIDs \subseteq sets

\* a candidate below the top of the buffer has been accepted
C1_Witness ==
    /\ pc = "accepted"
    /\ match.offset > 0
    /\ match.offset + Len(match.FullBytes) < Len(data)

\* C2: the scan goes down from len(data)-2 one offset at a time and passes
\* over no marker: while FindValidSignature runs, every offset above i that
\* carries the marker has been tried and rejected, so the offset returned is
\* the greatest one at which a candidate is accepted.
C2_GreatestOffset ==
    pc \in {"scan", "validating", "accepted", "exhausted"} =>
        /\ i <= Len(data) - 2
        /\ \A j \in 0..(Len(data) - 2) :
               j > i => (IsMarker(data, j) <=> j \in RejectedOffsets)
        /\ pc = "accepted" => match.offset = i
        /\ pc = "exhausted" => i < 0

\* a candidate is accepted after higher candidates failed to decode and failed
\* validation
C2_Witness ==
    /\ pc = "accepted"
    /\ \E r \in rejected : r.why = "decode" /\ r.offset > match.offset
    /\ \E r \in rejected : r.why = "fields" /\ r.offset > match.offset

\* C3: FindValidSignature ends either with a result or with the
\* no-signature-found error, never with a fault; it reports the error exactly
\* when every marker offset from 0 to len(data)-2 has been tried and none was
\* acceptable.
C3_ErrorIffNoCandidate ==
    /\ pc # "panic"
    /\ pc = "exhausted" =>
           \A j \in 0..(Len(data) - 2) :
               IsMarker(data, j) => j \in RejectedOffsets

\* C4: a candidate that fails never ends the search: when validation of a
\* candidate is left, the candidate is accepted or the scan goes on at the
\* next lower offset.
C4_FailureContinues ==
    [][(pc = "validating" /\ pc' # "validating") =>
           \/ pc' = "accepted"
           \/ pc' = "scan" /\ i' = i - 1]_vars

\* C5 (a second run on the same buffer ends as the first did, and validating
\* the accepted bytes again gives the result that caused acceptance) has no
\* formula here.  FindValidSignature and validateSignatureFields keep
\* nothing between calls: sp.data is only read, and i, raw and validation are
\* locals created anew (parsesign.go:190, 194, 215).  Their actions above are
\* therefore functions of data alone, and a comparison of two runs would
\* compare an operator with itself, which holds of any such model.

\* C6: no slice expression of the walker or of parseASN1Element is out of
\* range: no call faults, every walk offset stays within 0..len(data), and
\* every recursive call is given a region inside its caller's region.
C6_InBounds ==
    /\ pc # "panic"
    /\ (pc = "returned" /\ call.fn = "parseASN1Element") => ~ret.panic
    /\ \A k \in 1..Len(stack) :
           /\ ~I64IsNeg(stack[k].offset)
           /\ ~I64Less(I64Of(FrameLen(stack[k])), stack[k].offset)
           /\ k > 1 => /\ stack[k - 1].lo <= stack[k].lo
                       /\ stack[k].hi <= stack[k - 1].hi

\* C7: every successful parseASN1Element in a walk loop consumes at least two
\* bytes, so the loop's offset strictly increases.
C7_Progress ==
    last.err = "nil" => ~I64Less(last.bytesRead, I64Of(2))

\* C8: parseASN1Element called with depth greater than MaxRecursionDepth
\* returns an error.
C8_DepthLimit ==
    (pc = "returned" /\ call.fn = "parseASN1Element"
        /\ call.depth > MaxRecursionDepth) =>
        (~ret.panic /\ ret.err # "nil")

\* C9: within one region the walker decodes at most MaxElementsPerLevel
\* sibling elements.  (On side-by-side NULL elements, two bytes each, the
\* elements decoded so far in a region are offset / 2.)
C9_ElementLimit ==
    (pc = "fields" /\ "siblings" \in DOMAIN call) =>
        \A k \in 1..Len(stack) :
            ~I64Less(I64Of(2 * MaxElementsPerLevel + 1), stack[k].offset)

\* the unsigned value of the length octets exceeds rem (rem < 2^24)
OctetsExceed(octets, rem) ==
    LET n == Len(octets)
        low == SubSeq(octets, IF n > 3 THEN n - 2 ELSE 1, n)
        lowValue == IF Len(low) = 0 THEN 0
                    ELSE IF Len(low) = 1 THEN low[1]
                    ELSE IF Len(low) = 2 THEN low[1] * 256 + low[2]
                    ELSE low[1] * 65536 + low[2] * 256 + low[3]
    IN  (\E k \in 1..(n - 3) : octets[k] # 0) \/ lowValue > rem

\* the window of a call is one of the four cases of C10
C10_Case(w) ==
    \/ Len(w) < 2
    \/ /\ Len(w) >= 2
       /\ \/ w[2] = 128
          \/ w[2] > 128 /\ w[2] - 128 > Len(w) - 2
          \/ w[2] < 128 /\ w[2] > Len(w) - 2
          \/ /\ w[2] > 128
             /\ w[2] - 128 <= Len(w) - 2
             /\ OctetsExceed(SubSeq(w, 3, 2 + (w[2] - 128)),
                             Len(w) - 2 - (w[2] - 128))

\* C10: parseASN1Element returns an error and a consumed-byte count of 0 when
\* the window has fewer than 2 bytes, the length byte is 0x80, the long-form
\* octet count exceeds the bytes remaining, or the declared content length
\* exceeds the bytes remaining after the header.
C10_ErrorCases ==
    (pc = "returned" /\ call.fn = "parseASN1Element" /\ C10_Case(call.data)) =>
        (~ret.panic /\ ret.err # "nil" /\ ret.bytesRead = I64Zero)

\* a direct call of parseASN1Element has returned or faulted
ParseReturned == pc = "returned" /\ call.fn = "parseASN1Element"

ParseSucceeded == ParseReturned /\ ~ret.panic /\ ret.err = "nil"

\* C11: parseASN1Element fails whenever the low five bits of the tag octet
\* are 31; an element decoded successfully has a tag number in 0..30.
C11_NoLongFormTag ==
    /\ (ParseReturned /\ Len(call.data) >= 2 /\ call.data[1] % 32 = 31) =>
           (~ret.panic /\ ret.err # "nil")
    /\ ParseSucceeded => ret.element.Tag \in 0..30

\* the length octets of a long-form window do not fit a non-negative
\* 64-bit int: a significant octet before the last eight, or the top bit of
\* the eighth-last octet set
LengthOverflows(w) ==
    /\ Len(w) >= 2
    /\ w[2] > 128
    /\ Len(w) >= 2 + (w[2] - 128)
    /\ LET n == w[2] - 128
       IN  \/ \E k \in 1..(n - 8) : w[2 + k] # 0
           \/ n >= 8 /\ w[2 + n - 7] >= 128

\* C12: when the accumulation of the long-form length octets overflows the
\* integer holding the length, parseASN1Element fails with an error; it never
\* returns success with a negative Length nor with a consumed-byte count that
\* is zero or negative.
C12_NoOverflow ==
    /\ (ParseReturned /\ LengthOverflows(call.data)) =>
           (~ret.panic /\ ret.err # "nil")
    /\ ParseSucceeded =>
           (~I64IsNeg(ret.element.Length) /\ I64Positive(ret.bytesRead))

\* the window starts with a whole short-form element
ShortFormAt(w) == Len(w) >= 2 /\ w[2] < 128 /\ Len(w) >= 2 + w[2]

\* the window starts with a whole element whose length is in two octets
TwoOctetFormAt(w) ==
    /\ Len(w) >= 4
    /\ w[2] = 130
    /\ Len(w) >= 4 + w[3] * 256 + w[4]

\* C13: for a whole short-form or two-octet long-form element at the start
\* of the window, parseASN1Element succeeds with HeaderLen 2 or 4, Length
\* equal to the encoded length and consumed bytes HeaderLen+Length, and the
\* content bytes are the window's bytes at [HeaderLen, HeaderLen+Length).
C13_WellFormedSpan ==
    ParseReturned =>
        LET w == call.data
            el == ret.element
        IN  /\ ShortFormAt(w) =>
                /\ ParseSucceeded
                /\ el.HeaderLen = 2 /\ el.Length = I64Of(w[2])
                /\ ret.bytesRead = I64Of(2 + w[2])
                /\ SliceOK(w, el.HeaderLen, ret.bytesRead)
            /\ TwoOctetFormAt(w) =>
                /\ ParseSucceeded
                /\ el.HeaderLen = 4
                /\ el.Length = I64Of(w[3] * 256 + w[4])
                /\ ret.bytesRead = I64AddNat(el.Length, 4)
                /\ SliceOK(w, el.HeaderLen, ret.bytesRead)

\* a two-octet length of 256 has been decoded with bytes left over
C13_Witness ==
    /\ ParseSucceeded
    /\ TwoOctetFormAt(call.data)
    /\ ret.element.Length = I64Of(256)
    /\ I64Less(ret.bytesRead, I64Of(Len(call.data)))

(***************************************************************************)
(* The TLV tree of a byte range, read independently of the walker: what    *)
(* the claims about field extraction and key size call "the tree", "next   *)
(* sibling" and "document order".                                          *)
(***************************************************************************)
\* The element whose tag octet is at index off of b (counted from 0): a
\* one-octet tag (tag number below 31) and a definite length, of any number
\* of octets, that the bytes left in b can hold.  b is shorter than 2^24
\* bytes, so a length with a significant octet before its last three does
\* not fit.
RefHeader(b, off) ==
    LET bad == [ok |-> FALSE, tagByte |-> 0, hl |-> 0, len |-> 0]
        rem == Len(b) - off
    IN  IF rem < 2 THEN bad
        ELSE LET t == b[off + 1]
                 l == b[off + 2]
                 n == l - 128
             IN  IF t % 32 = 31 THEN bad
                 ELSE IF l < 128
                 THEN [ok |-> 2 + l <= rem, tagByte |-> t, hl |-> 2, len |-> l]
                 ELSE IF n = 0 \/ rem < 2 + n THEN bad
                 ELSE LET oct == SubSeq(b, off + 3, off + 2 + n)
                          low == SubSeq(oct, IF n > 3 THEN n - 2 ELSE 1, n)
                          len == IF Len(low) = 1 THEN low[1]
                                 ELSE IF Len(low) = 2 THEN low[1] * 256 + low[2]
                                 ELSE low[1] * 65536 + low[2] * 256 + low[3]
                      IN  IF \E k \in 1..(n - 3) : oct[k] # 0 THEN bad
                          ELSE [ok |-> 2 + n + len <= rem, tagByte |-> t,
                                hl |-> 2 + n, len |-> len]

RefConstructed(e) == (e.tagByte \div 32) % 2 = 1

\* an OBJECT IDENTIFIER: Universal class, primitive, tag number 6
RefIsOID(e) == e.tagByte = 6

\* an OCTET STRING: Universal class, primitive, tag number 4
RefIsOctetString(e) == e.tagByte = 4

RECURSIVE RefSiblings(_, _, _)
\* the elements side by side in b[lo, hi), each with its offset; a last
\* entry that is not ok stands for bytes that do not decode
RefSiblings(b, lo, hi) ==
    IF lo >= hi THEN <<>>
    ELSE LET e == RefHeader(SubSeq(b, 1, hi), lo)
         IN  IF ~e.ok THEN <<[e EXCEPT !.ok = FALSE] @@ [at |-> lo]>>
             ELSE <<e @@ [at |-> lo]>>
                  \o RefSiblings(b, lo + e.hl + e.len, hi)

RECURSIVE RefDecodable(_, _, _)
\* every element of b[lo, hi) decodes, and so does the content of every
\* constructed one
RefDecodable(b, lo, hi) ==
    LET sib == RefSiblings(b, lo, hi)
    IN  \A k \in 1..Len(sib) :
            /\ sib[k].ok
            /\ RefConstructed(sib[k]) =>
                   RefDecodable(b, sib[k].at + sib[k].hl,
                                sib[k].at + sib[k].hl + sib[k].len)

RefContent(b, e) == SubSeq(b, e.at + e.hl + 1, e.at + e.hl + e.len)

RECURSIVE RefOccurrences(_, _, _)
\* In depth-first document order: for every OBJECT IDENTIFIER of b[lo, hi)
\* whose next sibling is primitive and not empty, the OID's content and the
\* sibling's content.
RefOccurrences(b, lo, hi) ==
    LET sib == RefSiblings(b, lo, hi)
        Here(k) ==
            IF /\ sib[k].ok /\ RefIsOID(sib[k])
               /\ k < Len(sib) /\ sib[k + 1].ok
               /\ ~RefConstructed(sib[k + 1]) /\ sib[k + 1].len > 0
            THEN <<[enc |-> RefContent(b, sib[k]),
                    value |-> RefContent(b, sib[k + 1])]>>
            ELSE <<>>
        Below(k) ==
            IF sib[k].ok /\ RefConstructed(sib[k])
            THEN RefOccurrences(b, sib[k].at + sib[k].hl,
                                sib[k].at + sib[k].hl + sib[k].len)
            ELSE <<>>
        From[k \in 1..(Len(sib) + 1)] ==
            IF k > Len(sib) THEN <<>>
            ELSE Here(k) \o Below(k) \o From[k + 1]
    IN  From[1]

\* the values that follow the occurrences of one OID, in document order
RefValues(occ, enc) ==
    LET Pick[k \in 1..(Len(occ) + 1)] ==
            IF k > Len(occ) THEN <<>>
            ELSE (IF occ[k].enc = enc THEN <<occ[k].value>> ELSE <<>>)
                 \o Pick[k + 1]
    IN  Pick[1]

\* validateSignatureFields, called on its own on a byte range, has returned
FieldsReturned ==
    /\ pc = "returned"
    /\ call.fn = "validateSignatureFields"
    /\ "data" \in DOMAIN call

\* C14: after validateSignatureFields on a fully decodable byte range,
\* IsValid() is true if and only if each of the five recognized OIDs occurs
\* in the tree, at any depth and in any order, immediately followed by a
\* non-empty primitive sibling; each boolean stands for its own OID.
C14_ValidIffAllFive ==
    (FieldsReturned /\ RefDecodable(call.data, 0, Len(call.data))) =>
        LET occ == RefOccurrences(call.data, 0, Len(call.data))
            Found(enc) == RefValues(occ, enc) # <<>>
        IN  /\ ret.HasCommonName <=> Found(EncCommonName)
            /\ ret.HasCountryName <=> Found(EncCountryName)
            /\ ret.HasLocalityName <=> Found(EncLocalityName)
            /\ ret.HasOrganizationName <=> Found(EncOrganizationName)
            /\ ret.HasEmailAddress <=> Found(EncEmailAddress)
            /\ IsValid(ret) <=>
                   \A enc \in {EncCommonName, EncCountryName, EncLocalityName,
                               EncOrganizationName, EncEmailAddress} :
                       Found(enc)

\* the attribute an OID content names: the validation after recording value
RefRecord(v, enc, value) ==
    IF enc = EncCommonName
    THEN [v EXCEPT !.HasCommonName = TRUE, !.CommonName = value]
    ELSE IF enc = EncCountryName
    THEN [v EXCEPT !.HasCountryName = TRUE, !.CountryName = value]
    ELSE IF enc = EncLocalityName
    THEN [v EXCEPT !.HasLocalityName = TRUE, !.LocalityName = value]
    ELSE IF enc = EncOrganizationName
    THEN [v EXCEPT !.HasOrganizationName = TRUE, !.OrganizationName = value]
    ELSE IF enc = EncEmailAddress
    THEN [v EXCEPT !.HasEmailAddress = TRUE, !.EmailAddress = value]
    ELSE v

\* The element the walker stands at carries an attribute OID and its next
\* sibling in the same region decodes, is primitive and is not empty; then
\* the validation with that sibling's content recorded, else v unchanged.
RefStep(v, d, off) ==
    LET e == RefHeader(d, off) @@ [at |-> off]
        s == RefHeader(d, off + e.hl + e.len) @@ [at |-> off + e.hl + e.len]
    IN  IF e.ok /\ e.tagByte % 32 = 6 /\ s.ok /\ ~RefConstructed(s)
           /\ s.len > 0
        THEN RefRecord(v, RefContent(d, e), RefContent(d, s))
        ELSE v

\* C15: a value is recorded for an attribute OID only from the element that
\* immediately follows the OID element in the same region; when the OID ends
\* its region, or that sibling is constructed, is empty or fails to decode,
\* nothing is recorded: each step of the walk changes the validation exactly
\* as the element it stands at and that element's next sibling say.
C15_ValueFromNextSibling ==
    [][(Walking /\ stack # <<>> /\ ~I64IsNeg(Top.offset)) =>
           validation' =
               IF I64Less(Top.offset, I64Of(FrameLen(Top)))
               THEN RefStep(validation, FrameData(Top), I64Int(Top.offset))
               ELSE validation]_vars

\* C16: when an attribute's OID occurs more than once, each time followed by
\* a non-empty primitive value, the string recorded after extraction is the
\* value that follows the occurrence last in depth-first document order.
C16_LastOccurrenceWins ==
    (FieldsReturned /\ RefDecodable(call.data, 0, Len(call.data))) =>
        LET occ == RefOccurrences(call.data, 0, Len(call.data))
            Last(enc) == RefValues(occ, enc)[Len(RefValues(occ, enc))]
            Twice(enc) == Len(RefValues(occ, enc)) >= 2
        IN  /\ Twice(EncCommonName) => ret.CommonName = Last(EncCommonName)
            /\ Twice(EncCountryName) => ret.CountryName = Last(EncCountryName)
            /\ Twice(EncLocalityName) =>
                   ret.LocalityName = Last(EncLocalityName)
            /\ Twice(EncOrganizationName) =>
                   ret.OrganizationName = Last(EncOrganizationName)
            /\ Twice(EncEmailAddress) =>
                   ret.EmailAddress = Last(EncEmailAddress)

RECURSIVE RefVisited(_, _, _)
\* the elements of b[lo, hi) in the order a depth-first walk in document
\* order visits them; the walk of a region ends at bytes that do not decode
RefVisited(b, lo, hi) ==
    LET sib == RefSiblings(b, lo, hi)
        From[k \in 1..(Len(sib) + 1)] ==
            IF k > Len(sib) \/ ~sib[k].ok THEN <<>>
            ELSE <<sib[k]>>
                 \o (IF RefConstructed(sib[k])
                     THEN RefVisited(b, sib[k].at + sib[k].hl,
                                     sib[k].at + sib[k].hl + sib[k].len)
                     ELSE <<>>)
                 \o From[k + 1]
    IN  From[1]

KeySizeReturned == pc = "returned" /\ call.fn = "calculateKeySize"

\* C17: if the last element visited by the complete depth-first walk of the
\* tree is an OCTET STRING with n content bytes, calculateKeySize returns
\* 8*n (2048 for SEQUENCE { OCTET STRING of 256 bytes }).
C17_LastOctetString ==
    KeySizeReturned =>
        LET visited == RefVisited(call.data, 0, Len(call.data))
        IN  (visited # <<>> /\ RefIsOctetString(visited[Len(visited)])) =>
                ret = I64Of(8 * visited[Len(visited)].len)

\* C18: calculateKeySize returns 0 whenever the element visited last in the
\* whole tree is not an OCTET STRING: also when an OCTET STRING ends an inner
\* region and other elements are visited after it, and when the last element
\* has tag number 4 in another class or with the constructed bit set.
C18_ZeroUnlessLastIsOctetString ==
    KeySizeReturned =>
        LET visited == RefVisited(call.data, 0, Len(call.data))
        IN  (visited = <<>> \/ ~RefIsOctetString(visited[Len(visited)])) =>
                ret = I64Zero

(***************************************************************************)
(* Dotted-decimal text, written out independently of parseOID.             *)
(***************************************************************************)
\* the decimal digits of n
RefDecimal(n) ==
    LET nd == CHOOSE k \in 1..10 :
                  /\ (k = 10 \/ n < 10 ^ k)
                  /\ (k = 1 \/ n >= 10 ^ (k - 1))
    IN  [j \in 1..nd |-> Digits[((n \div (10 ^ (nd - j))) % 10) + 1]]

RECURSIVE RefGroups(_, _, _, _)
\* The base-128 big-endian values of the groups of c from index k on, each
\* group ending at a byte with the high bit clear; acc and open are the
\* value and the presence of the group under way.  Bytes after the last
\* such byte form no group.
RefGroups(c, k, acc, open) ==
    IF k > Len(c) THEN <<>>
    ELSE LET v == acc * 128 + (c[k] % 128)
         IN  IF c[k] < 128 THEN <<v>> \o RefGroups(c, k + 1, 0, FALSE)
             ELSE RefGroups(c, k + 1, v, TRUE)

RECURSIVE RefDotted(_)
\* the arcs in decimal, each after the first preceded by a dot
RefDotted(arcs) ==
    IF Len(arcs) = 0 THEN <<>>
    ELSE IF Len(arcs) = 1 THEN RefDecimal(arcs[1])
    ELSE RefDecimal(arcs[1]) \o <<".">> \o RefDotted(Tail(arcs))

RefOIDText(c) ==
    IF Len(c) = 0 THEN <<>>
    ELSE RefDotted(<<c[1] \div 40, c[1] % 40>> \o RefGroups(c, 2, 0, FALSE))

OIDReturned == pc = "returned" /\ call.fn = "parseOID"

\* C19: parseOID maps empty content to the empty string and otherwise gives
\* the dotted-decimal text whose first two arcs are b/40 and b%40 of the
\* first byte and whose further arcs are the base-128 big-endian values of
\* the groups of bytes ending at a byte with the high bit clear; 55 04 03
\* gives "2.5.4.3", 2A 86 48 86 F7 0D 01 01 01 gives "1.2.840.113549.1.1.1".
C19_DottedDecimal ==
    OIDReturned =>
        /\ ret = RefOIDText(call.data)
        /\ call.data = <<85, 4, 3>> => ret = <<"2", ".", "5", ".", "4", ".", "3">>
        /\ call.data = <<42, 134, 72, 134, 247, 13, 1, 1, 1>> =>
               ret = <<"1", ".", "2", ".", "8", "4", "0", ".", "1", "1", "3",
                       "5", "4", "9", ".", "1", ".", "1", ".", "1">>

\* the text begins with the two arcs, then ends or goes on with a dot
BeginsWithArcs(text, first, second) ==
    LET head == RefDecimal(first) \o <<".">> \o RefDecimal(second)
    IN  /\ Len(text) >= Len(head)
        /\ SubSeq(text, 1, Len(head)) = head
        /\ Len(text) > Len(head) => text[Len(head) + 1] = "."

\* C20: for every non-empty OID content the first arc parseOID gives is in
\* {0, 1, 2} and the second arc is the first byte modulo 40.
C20_FirstArcAtMostTwo ==
    (OIDReturned /\ Len(call.data) > 0) =>
        \E first \in {0, 1, 2} :
            BeginsWithArcs(ret, first, call.data[1] % 40)

\* C20 as the code has it: the first arc is the first byte divided by 40,
\* from 0 up to 6, in {0, 1, 2} exactly for first bytes below 120; the
\* second arc is the first byte modulo 40.
C20_FirstArcIsQuotient ==
    (OIDReturned /\ Len(call.data) > 0) =>
        LET b == call.data[1]
        IN  /\ BeginsWithArcs(ret, b \div 40, b % 40)
            /\ b \div 40 \in 0..6
            /\ b \div 40 \in {0, 1, 2} <=> b < 120

\* the greatest first byte has been decoded: first arc 6, second arc 15
C20_Witness ==
    /\ OIDReturned
    /\ call.data = <<255>>
    /\ ret = <<"6", ".", "1", "5">>

\* the content ends inside a sub-identifier: there is a byte after the first
\* one and the last byte has the continuation bit set
EndsInsideChunk(c) == Len(c) >= 2 /\ c[Len(c)] >= 128

\* C21: when the last base-128 chunk of an OID content is not ended by the
\* end of the content, parseOID leaves that partial arc out of its output:
\* the text is that of the arcs completed before it (55 04 86 gives
\* "2.5.4").
C21_PartialArcDiscarded ==
    (OIDReturned /\ EndsInsideChunk(call.data)) =>
        /\ ret = RefOIDText(call.data)
        /\ call.data = <<85, 4, 134>> => ret = <<"2", ".", "5", ".", "4">>

RECURSIVE SequentialWalk(_, _, _)
\* the walk run alone from the calls stk and the validation v to its end:
\* the validation returned, or "panic"
SequentialWalk(bytes, stk, v) ==
    IF stk = <<>> THEN v
    ELSE LET n == findFieldsIteration(bytes, stk, v)
         IN  IF n.panic THEN "panic"
             ELSE SequentialWalk(bytes, n.stack, n.validation)

\* what one goroutine running alone obtains on the buffer
SequentialResult(bytes) ==
    SequentialWalk(bytes, <<RootFrame(bytes)>>, ZeroValidation)

\* C22: goroutines walking the same buffer under any interleaving of their
\* steps each obtain what a run alone obtains, no step of one changes the
\* walk state or the validation of another, and no step changes the buffer.
C22_SameAsSequential ==
    [][/\ call' = call
       /\ \A c \in 1..NumCallers :
              /\ callers'[c].pc = "returned" =>
                     callers'[c].ret = SequentialResult(call.data)
              /\ callers'[c].pc = "panic" =>
                     SequentialResult(call.data) = "panic"
              /\ \A o \in 1..NumCallers :
                     (o # c /\ callers'[o].stack # callers[o].stack) =>
                         /\ callers'[c].stack = callers[c].stack
                         /\ callers'[c].validation = callers[c].validation
      ]_vars

\* one goroutine has returned the complete result while another is in the
\* middle of its walk with some attributes found and others not yet
C22_Witness ==
    /\ pc = "concurrent"
    /\ \E c, o \in 1..NumCallers :
           /\ callers[c].pc = "returned"
           /\ IsValid(callers[c].ret)
           /\ callers[o].pc = "walking"
           /\ callers[o].validation.HasCommonName
           /\ ~IsValid(callers[o].validation)

\* the innermost call of a walker is about to decode an element and the
\* decoding fails: parseASN1Element gives an error or does not return
DecodeFailsAtTop ==
    /\ Walking \/ KeyWalking
    /\ stack # <<>>
    /\ ~I64IsNeg(Top.offset)
    /\ I64Less(Top.offset, I64Of(FrameLen(Top)))
    /\ LET d == IF Walking THEN FrameData(Top) ELSE KeyFrameData(Top)
           offset == I64Int(Top.offset)
           r == parseASN1Element(SliceFrom(d, offset), 0, offset)
       IN  r.panic \/ r.err # "nil"

\* C23: a decode failure on one element ends only the innermost call of the
\* walker: that call returns to its caller, which goes on with its next
\* sibling; the validation recorded so far is kept; no fault leaves
\* validateSignatureFields, calculateKeySize or FindValidSignature.
C23_FailureEndsRegionOnly ==
    [][DecodeFailsAtTop =>
           /\ pc' = pc
           /\ stack' = Pop
           /\ validation' = validation]_vars

\* C24: a step of the field extractor changes the validation only when the
\* element it stands at is an OBJECT IDENTIFIER: its tag octet is 0x06
\* (Universal class, primitive, tag number 6).  An element of another class
\* or with the constructed bit set whose low five tag bits are 6 (0x86,
\* 0x46, 0xC6, 0x26, ...) sets no field.
C24_OnlyUniversalPrimitiveOID ==
    [][(Walking /\ stack # <<>> /\ ~I64IsNeg(Top.offset)
        /\ I64Less(Top.offset, I64Of(FrameLen(Top)))
        /\ validation' # validation) =>
           FrameData(Top)[I64Int(Top.offset) + 1] = 6]_vars

\* the five attributes: the OID, the boolean field, the string field
AttributeFields ==
    {<<OIDCommonName, "HasCommonName", "CommonName">>,
     <<OIDCountryName, "HasCountryName", "CountryName">>,
     <<OIDLocalityName, "HasLocalityName", "LocalityName">>,
     <<OIDOrganizationName, "HasOrganizationName", "OrganizationName">>,
     <<OIDEmailAddress, "HasEmailAddress", "EmailAddress">>}

SetFieldReturned == pc = "returned" /\ call.fn = "setValidationField"

\* C25: after setValidationField(validation, oid, value) the attribute whose
\* OID was given has its boolean true and its string equal to value, and
\* every other boolean and string is as it was before the call; with any
\* other OID all ten fields are as before, and the call returns.
C25_SetsOnlyNamedAttribute ==
    SetFieldReturned =>
        /\ \A a \in AttributeFields :
               IF call.oid = a[1]
               THEN validation[a[2]] = TRUE /\ validation[a[3]] = call.value
               ELSE /\ validation[a[2]] = call.validation[a[2]]
                    /\ validation[a[3]] = call.validation[a[3]]
        /\ (\A a \in AttributeFields : call.oid # a[1]) =>
               validation = call.validation

\* the locality has been set anew on a validation that had four attributes
C25_Witness ==
    /\ SetFieldReturned
    /\ call.oid = OIDLocalityName
    /\ call.validation.LocalityName = <<76>>
    /\ call.validation.HasCountryName
    /\ validation.LocalityName = <<68, 69>>
    /\ validation.CountryName = <<85, 83>>

\* each string is empty while its boolean is false and not empty while it
\* is true
PairsConsistent(v) ==
    \A a \in AttributeFields : v[a[2]] <=> v[a[3]] # <<>>

\* C26: throughout validateSignatureFields and in what it returns, each of
\* the five strings is empty while its boolean is false and not empty once
\* it is true, and a boolean that is true stays true.
C26_PairsConsistent ==
    [][(pc \in {"fields", "returned"}
        /\ call.fn = "validateSignatureFields") =>
           /\ PairsConsistent(validation)
           /\ PairsConsistent(validation')
           /\ \A a \in AttributeFields : validation[a[2]] => validation'[a[2]]
           /\ pc' = "returned" =>
                  (ret' = validation /\ PairsConsistent(ret'))]_vars

\* the walk is under way with an attribute recorded a second time, with
\* another value, and other attributes not found yet
C26_Witness ==
    /\ pc = "fields"
    /\ call.fn = "validateSignatureFields"
    /\ stack # <<>>
    /\ validation.HasCommonName
    /\ ~validation.HasEmailAddress
    /\ \E k \in 1..Len(stack) : I64Positive(stack[k].offset)
    /\ LET occ == RefValues(RefOccurrences(call.data, 0, Len(call.data)),
                            EncCommonName)
       IN  Len(occ) >= 2 /\ validation.CommonName = occ[2] /\ occ[1] # occ[2]

\* FindValidSignature has returned a signature in this run
Located ==
    pc \in {"accepted", "main_validating", "main_validated", "main_keysize",
            "main_display", "main_displayed", "done"}

\* header and content of the structure at Go offset o of the buffer: the
\* marker, two length octets, and as many content bytes as they say
StructureEnd(o) == o + 4 + data[o + 3] * 256 + data[o + 4]

\* C27: the bytes FindValidSignature returns are exactly
\* buffer[offset : offset+headerLength+contentLength] of the accepted
\* candidate: they begin at the returned offset with 0x30 0x82, end inside
\* the buffer and hold nothing that follows the structure; validation, key
\* size and display in main are run on these bytes (the display with the
\* returned offset as its base), and the file saved holds these bytes.
C27_ExactBytes ==
    Located =>
        LET o == match.offset
            exact == Slice(data, o, StructureEnd(o))
        IN  /\ o >= 0
            /\ StructureEnd(o) <= Len(data)
            /\ data[o + 1] = 48 /\ data[o + 2] = 130
            /\ match.FullBytes = exact
            /\ Len(match.FullBytes) = StructureEnd(o) - o
            /\ raw = exact
            /\ (pc \in {"main_validating", "main_keysize", "main_display"}
                /\ stack # <<>>) =>
                   (stack[1].lo = 0 /\ stack[1].hi = Len(exact))
            /\ (pc = "main_display" /\ stack # <<>>) =>
                   stack[1].baseOffset = o
            /\ saved \in {<<>>, exact}

\* a structure with bytes before and after it has been validated, sized,
\* displayed and saved
C27_Witness ==
    /\ pc = "done"
    /\ match.offset > 0
    /\ match.offset + Len(match.FullBytes) < Len(data)
    /\ saved = match.FullBytes
    /\ IsValid(validation)
    /\ I64Positive(keySize)
    /\ emitted # <<>>

\* the elements Display has emitted so far, in order
EmittedElements ==
    LET Pick[k \in 0..Len(emitted)] ==
            IF k = 0 THEN <<>>
            ELSE IF emitted[k].kind = "element"
            THEN Append(Pick[k - 1], emitted[k].element)
            ELSE Pick[k - 1]
    IN  Pick[Len(emitted)]

\* element e lies in the content of the constructed element p
RefInside(e, p) ==
    /\ p.IsCompound
    /\ p.Offset + p.HeaderLen <= e.Offset
    /\ I64Less(I64Of(e.Offset), I64AddNat(p.Length, p.Offset + p.HeaderLen))

\* C28: of every element Display emits in main, Offset is the position in
\* the whole buffer of the element's tag octet, Depth is the number of
\* emitted elements that contain it (0 at the top level, one more than the
\* parent's for a child), the Offsets are strictly increasing, and once
\* Display has returned the elements emitted are those of the structure in
\* depth-first document order.
C28_AbsoluteOffsets ==
    pc \in {"main_display", "main_displayed", "done"} =>
        LET els == EmittedElements
            visited == RefVisited(raw, 0, Len(raw))
        IN  /\ \A k \in 1..Len(els) :
                   /\ els[k].Offset >= match.offset
                   /\ els[k].Offset < match.offset + Len(raw)
                   /\ data[els[k].Offset + 1] % 32 = els[k].Tag
                   /\ data[els[k].Offset + 1] \div 64 = els[k].Class
                   /\ k > 1 => els[k - 1].Offset < els[k].Offset
                   /\ els[k].Depth =
                          Cardinality({j \in 1..(k - 1) :
                                          RefInside(els[k], els[j])})
            /\ pc # "main_display" =>
                   /\ Len(els) = Len(visited)
                   /\ \A k \in 1..Len(els) :
                          els[k].Offset = match.offset + visited[k].at

\* the content as a 64-bit two's-complement number: the bytes at the low
\* end, the bytes above them all 0x00, or all 0xFF when the top bit of the
\* first content byte is set
RefSignExtended(content) ==
    LET fill == IF content[1] >= 128 THEN 255 ELSE 0
        n == Len(content)
    IN  [k \in 1..8 |-> IF k <= 8 - n THEN fill ELSE content[k - (8 - n)]]

FormatReturned == pc = "returned" /\ call.fn = "formatPrimitiveContent"

\* C29: for an INTEGER of 1 to 8 content bytes formatPrimitiveContent gives
\* the decimal value of the content read as a big-endian two's-complement
\* number, then the content in hexadecimal in parentheses: 01 23 gives
\* "291 (0x0123)", FF gives "-1 (0xFF)".
C29_IntegerDecimal ==
    (FormatReturned /\ call.tag = TagInteger
     /\ Len(call.content) \in 1..8) =>
        /\ ret = FormatI64(RefSignExtended(call.content))
                 \o <<" ", "(", "0", "x">>
                 \o HexWith(UpperHex, call.content) \o <<")">>
        /\ call.content = <<1, 35>> =>
               ret = <<"2", "9", "1", " ", "(", "0", "x", "0", "1", "2", "3",
                       ")">>
        /\ call.content = <<255>> =>
               ret = <<"-", "1", " ", "(", "0", "x", "F", "F", ")">>

\* the words naming the classes
RefApplication == <<"A", "P", "P", "L", "I", "C", "A", "T", "I", "O", "N">>

RefContext == <<"C", "O", "N", "T", "E", "X", "T">>

RefPrivate == <<"P", "R", "I", "V", "A", "T", "E">>

\* the names of universal types
RefUniversalNames ==
    {<<"S", "E", "Q", "U", "E", "N", "C", "E">>,
     <<"S", "E", "T">>,
     <<"B", "O", "O", "L", "E", "A", "N">>,
     <<"I", "N", "T", "E", "G", "E", "R">>,
     <<"B", "I", "T", " ", "S", "T", "R", "I", "N", "G">>,
     <<"O", "C", "T", "E", "T", " ", "S", "T", "R", "I", "N", "G">>,
     <<"O", "B", "J", "E", "C", "T", " ", "I", "D", "E", "N", "T", "I", "F",
       "I", "E", "R">>,
     <<"N", "U", "L", "L">>}

\* text begins with head
RefBeginsWith(text, head) ==
    Len(text) >= Len(head) /\ SubSeq(text, 1, Len(head)) = head

\* C30: the name parseASN1Element gives an element depends on its class:
\* an Application element with tag number n is named "APPLICATION [n]", a
\* Private one "PRIVATE [n]", a Context-specific one "CONTEXT [n]" possibly
\* followed by a hint; none of them gets the name of a universal type; a
\* Universal primitive element with a tag number that is no type's (15) is
\* named "PRIMITIVE [15]".
C30_NamedByClass ==
    (ParseReturned /\ ~ret.panic /\ ret.element.TagName # <<>>) =>
        LET e == ret.element
        IN  /\ e.Class = 1 => e.TagName = Bracketed(RefApplication, e.Tag)
            /\ e.Class = 2 =>
                   RefBeginsWith(e.TagName, Bracketed(RefContext, e.Tag))
            /\ e.Class = 3 => e.TagName = Bracketed(RefPrivate, e.Tag)
            /\ e.Class # 0 => e.TagName \notin RefUniversalNames
            /\ (e.Class = 0 /\ ~e.IsCompound /\ e.Tag = 15) =>
                   e.TagName = <<"P", "R", "I", "M", "I", "T", "I", "V", "E", " ",
                                 "[", "1", "5", "]">>

====
